---- MODULE Spec2Model ----
(***************************************************************************)
(* Quiz results aggregation of the virtual anatomy quiz backend.           *)
(*                                                                         *)
(* The state is the content of the four MongoDB collections the results    *)
(* route reads (quizzes, submissions, mesh catalog items, organ groups)    *)
(* and the HTTP response of the request that was served last, with the     *)
(* storage operations that request issued.  ObjectIds are kept as their    *)
(* 24-digit lower-case hexadecimal strings, which is what                  *)
(* ObjectId.toString() returns; a JavaScript object with optional fields   *)
(* is a record whose DOMAIN holds the fields that are present.             *)
(*                                                                         *)
(* Two history variables, request and earlier, are observations used by    *)
(* the properties; no handler reads them.                                  *)
(***************************************************************************)
EXTENDS Integers, Sequences, FiniteSets, TLC

VARIABLES
    quizzes,        \* Quiz collection: set of quiz documents
    submissions,    \* Submission collection in insertion order
    meshCatalog,    \* MeshCatalogItem collection
    organGroups,    \* OrganGroup collection
    response,       \* response of the request served last
    storageCalls,   \* storage operations that request issued, in order
    generated,      \* number of ObjectIds generated for quizzes and questions
    request,        \* history: the request served last, where observed
    earlier         \* history: an earlier results response and its inputs

vars == <<quizzes, submissions, meshCatalog, organGroups, response,
          storageCalls, generated, request, earlier>>

\* The submission log holds at most this many answer entries in total.
MaxTotalAnswers == 2

(***************************************************************************)
(* ObjectId strings                                                        *)
(***************************************************************************)
HexDigits == {"0", "1", "2", "3", "4", "5", "6", "7", "8", "9",
              "a", "b", "c", "d", "e", "f"}

LowerChar(c) ==
    CASE c = "A" -> "a" [] c = "B" -> "b" [] c = "C" -> "c"
      [] c = "D" -> "d" [] c = "E" -> "e" [] c = "F" -> "f"
      [] OTHER -> c

\* Types.ObjectId.isValid on a string: 24 hexadecimal digits of either case.
IsValidObjectId(s) ==
    /\ Len(s) = 24
    /\ \A i \in 1..24 : LowerChar(SubSeq(s, i, i)) \in HexDigits

\* new Types.ObjectId(s): the id, whose string form is lower-case.
RECURSIVE ObjectIdOf(_)
ObjectIdOf(s) ==
    IF s = "" THEN ""
    ELSE LowerChar(SubSeq(s, 1, 1)) \o ObjectIdOf(SubSeq(s, 2, Len(s)))

\* An id as a client may write it: the same digits in upper case.
UpperChar(c) ==
    CASE c = "a" -> "A" [] c = "b" -> "B" [] c = "c" -> "C"
      [] c = "d" -> "D" [] c = "e" -> "E" [] c = "f" -> "F"
      [] OTHER -> c

RECURSIVE UpperHex(_)
UpperHex(s) ==
    IF s = "" THEN ""
    ELSE UpperChar(SubSeq(s, 1, 1)) \o UpperHex(SubSeq(s, 2, Len(s)))

Range(s) == {s[i] : i \in 1..Len(s)}

(***************************************************************************)
(* Documents the collections start with                                    *)
(***************************************************************************)
QuizIdA == "507f1f77bcf86cd799439011"
QuizIdB == "507f1f77bcf86cd799439021"
NoQuizId == "507f1f77bcf86cd7994390ff"

MeshHeart == "607f1f77bcf86cd799439001"    \* member of the group Upper
MeshLung == "607f1f77bcf86cd799439002"     \* member of no group
MeshGone == "6a7b3c77bcf86cd799439003"     \* in no catalog
MeshRadius == "607f1f77bcf86cd799439004"   \* member of Upper and of Lost
GroupUpper == "707f1f77bcf86cd799439001"
GroupLost == "707f1f77bcf86cd799439002"    \* in no catalog

SeedMeshCatalog ==
    { [_id |-> MeshHeart, meshName |-> "heart", displayName |-> "Heart",
       organGroupIds |-> {GroupUpper}],
      [_id |-> MeshLung, meshName |-> "lung", displayName |-> "Lung",
       organGroupIds |-> {}],
      [_id |-> MeshRadius, meshName |-> "radius_L",
       displayName |-> "Radius (L)",
       organGroupIds |-> {GroupUpper, GroupLost}] }

SeedOrganGroups == { [_id |-> GroupUpper, groupName |-> "Upper Limb"] }

Option(t, c) == [text |-> t, isCorrect |-> c]

qMC == [_id |-> "507f1f77bcf86cd799439012", questionText |-> "What is 2 + 2?",
        type |-> "multiple-choice",
        answers |-> <<Option("3", FALSE), Option("4", TRUE),
                      Option("5", FALSE)>>]
qTF == [_id |-> "507f1f77bcf86cd799439015", questionText |-> "Bones are alive",
        type |-> "true-false",
        answers |-> <<Option("True", TRUE), Option("False", TRUE)>>]
qMCNone == [_id |-> "507f1f77bcf86cd799439016",
            questionText |-> "Which one is a muscle?",
            type |-> "multiple-choice",
            answers |-> <<Option("Femur", FALSE), Option("Tibia", FALSE)>>]
qSA == [_id |-> "507f1f77bcf86cd799439013",
        questionText |-> "What do lungs do?",
        type |-> "short-answer", answers |-> <<>>]

SelectOrgan(id, text, targetType, target) ==
    [_id |-> id, questionText |-> text, type |-> "select-organ",
     answers |-> <<>>, targetType |-> targetType, target_id |-> target]

qMesh == SelectOrgan("507f1f77bcf86cd799439014", "Select the heart",
                     "mesh", MeshHeart)
qMeshGone == SelectOrgan("507f1f77bcf86cd799439017", "Select the spleen",
                         "mesh", MeshGone)
qGroup == SelectOrgan("507f1f77bcf86cd799439018",
                      "Select a bone from the upper limb group",
                      "group", GroupUpper)
qGroupLost == SelectOrgan("507f1f77bcf86cd799439019",
                          "Select a bone of the lost group",
                          "group", GroupLost)

QuizDoc(id, questions) ==
    [_id |-> id, title |-> "Test Quiz", studyYear |-> 1,
     questions |-> questions]

\* The quiz collections a run may start from.
SeedQuizzes ==
    { {QuizDoc(QuizIdA, <<q>>)} :
        q \in {qMC, qTF, qMCNone, qSA, qMesh, qMeshGone, qGroup} }
    \cup { {QuizDoc(QuizIdA, <<qSA, qGroupLost>>)},
           {QuizDoc(QuizIdA, <<qTF>>), QuizDoc(QuizIdB, <<qTF>>)} }

(***************************************************************************)
(* GET /api/quizzes/[id]/results: reference prefetch                       *)
(***************************************************************************)
HasField(obj, f) == f \in DOMAIN obj

\* Truthiness of an optional id or string field: present and not "".
Truthy(obj, f) == HasField(obj, f) /\ obj[f] /= ""

\* A JSON value of a request whose type the route tests is a record tagged
\* with its type: Num(1) is the number 1, Str("1") the string "1".
Num(n) == [number |-> n]
Str(t) == [string |-> t]

\* typeof v === "number"
IsNumber(v) == HasField(v, "number")

\* Variant: the quiz_id filter is forgotten.
SubmissionsOfAnyQuiz(quizId) == submissions

\* Submission.find({quiz_id}): the quiz's submissions in insertion order.
SubmissionsOfQuiz(quizId) ==
    SelectSeq(submissions, LAMBDA sub : sub.quiz_id = quizId)

\* Variant: the clicked ids of the submissions are not collected.
itemIdsToFetchTargetsOnly(quiz, subs) ==
    { q.target_id : q \in { x \in Range(quiz.questions) :
          /\ x.type = "select-organ" /\ Truthy(x, "target_id")
          /\ x.targetType = "mesh" /\ IsValidObjectId(x.target_id) } }

\* Ids of MeshCatalogItem documents to fetch.
itemIdsToFetch(quiz, subs) ==
    { q.target_id : q \in { x \in Range(quiz.questions) :
          /\ x.type = "select-organ" /\ Truthy(x, "target_id")
          /\ x.targetType = "mesh" /\ IsValidObjectId(x.target_id) } }
    \cup
    { a.responseText_ClickedMesh_id :
        a \in { x \in UNION { Range(sub.answers) : sub \in Range(subs) } :
                  /\ Truthy(x, "responseText_ClickedMesh_id")
                  /\ IsValidObjectId(x.responseText_ClickedMesh_id) } }

\* Ids of OrganGroup documents to fetch.
groupIdsToFetch(quiz) ==
    { q.target_id : q \in { x \in Range(quiz.questions) :
          /\ x.type = "select-organ" /\ Truthy(x, "target_id")
          /\ x.targetType = "group" /\ IsValidObjectId(x.target_id) } }

\* MeshCatalogItem.find({_id: {$in: ids}}) keyed by id; ids are unique, so
\* the map is the set of fetched documents.
meshCatalogMap(quiz, subs) ==
    { item \in meshCatalog : item._id \in itemIdsToFetch(quiz, subs) }

organGroupMap(quiz) ==
    { group \in organGroups : group._id \in groupIdsToFetch(quiz) }

\* Map.get(id): the documents stored under the id (none or one).
MapGet(map, id) == { doc \in map : doc._id = id }

(***************************************************************************)
(* Per-question aggregation                                                *)
(***************************************************************************)
\* Variant: filter instead of find, every matching entry is taken.
FindAnswerAll(sub, questionId) ==
    SelectSeq(sub.answers, LAMBDA ans : ans.question_id = questionId)

\* Variant: a submission without an entry for the question contributes its
\* first entry.
FindAnswerOrFirst(sub, questionId) ==
    LET hits == { i \in 1..Len(sub.answers) :
                    sub.answers[i].question_id = questionId }
    IN  IF hits = {} THEN SubSeq(sub.answers, 1, 1)
        ELSE <<sub.answers[CHOOSE i \in hits : \A j \in hits : i <= j]>>

\* sub.answers.find(ans => ans.question_id.toString() === id): the first
\* matching entry, as a sequence of length 0 (undefined) or 1.
FindAnswer(sub, questionId) ==
    LET hits == { i \in 1..Len(sub.answers) :
                    sub.answers[i].question_id = questionId }
    IN  IF hits = {} THEN <<>>
        ELSE <<sub.answers[CHOOSE i \in hits : \A j \in hits : i <= j]>>

\* Variant: an answer equal to one already collected is dropped.
RECURSIVE questionSubmissionsDeduplicated(_, _)
questionSubmissionsDeduplicated(subs, questionId) ==
    IF subs = <<>> THEN <<>>
    ELSE LET before == questionSubmissionsDeduplicated(
                           SubSeq(subs, 1, Len(subs) - 1), questionId)
             found == FindAnswer(subs[Len(subs)], questionId)
         IN  IF found /= <<>> /\ found[1] \in Range(before) THEN before
             ELSE before \o found

\* submissions.map(find).filter(defined)
RECURSIVE questionSubmissions(_, _)
questionSubmissions(subs, questionId) ==
    IF subs = <<>> THEN <<>>
    ELSE FindAnswer(Head(subs), questionId)
         \o questionSubmissions(Tail(subs), questionId)

\* The guard of the tally of a multiple-choice / true-false answer.
IndexInRange(question, ans) ==
    /\ HasField(ans, "selectedAnswerId_Index")
    /\ HasField(question, "answers")
    /\ ans.selectedAnswerId_Index >= 0
    /\ ans.selectedAnswerId_Index < Len(question.answers)

\* Variant: the selected index is read as a 1-based position.
optionCountsOneBased(question, qSubs) ==
    [ k \in 1..Len(question.answers) |->
        Cardinality({ i \in 1..Len(qSubs) :
            /\ IndexInRange(question, qSubs[i])
            /\ qSubs[i].selectedAnswerId_Index = k }) ]

optionCounts(question, qSubs) ==
    [ k \in 1..Len(question.answers) |->
        Cardinality({ i \in 1..Len(qSubs) :
            /\ IndexInRange(question, qSubs[i])
            /\ qSubs[i].selectedAnswerId_Index = k - 1 }) ]

\* Variant: every answer with an index in range is taken as correct.
ChoiceTotalCorrectAnyValid(question, qSubs) ==
    Cardinality({ i \in 1..Len(qSubs) : IndexInRange(question, qSubs[i]) })

ChoiceTotalCorrect(question, qSubs) ==
    Cardinality({ i \in 1..Len(qSubs) :
        /\ IndexInRange(question, qSubs[i])
        /\ qSubs[i].selectedAnswerId_Index + 1 \in DOMAIN question.answers
        /\ question.answers[qSubs[i].selectedAnswerId_Index + 1].isCorrect })

\* Variant: options nobody chose are left out.
ChoiceBreakdownChosenOnly(question, qSubs) ==
    IF HasField(question, "answers")
    THEN SelectSeq([ k \in 1..Len(question.answers) |->
                      [answerText |-> question.answers[k].text,
                       studentCount |-> optionCounts(question, qSubs)[k],
                       isCorrectOption |-> question.answers[k].isCorrect] ],
                   LAMBDA row : row.studentCount > 0)
    ELSE <<>>

ChoiceBreakdown(question, qSubs) ==
    IF HasField(question, "answers")
    THEN [ k \in 1..Len(question.answers) |->
            [answerText |-> question.answers[k].text,
             studentCount |-> optionCounts(question, qSubs)[k],
             isCorrectOption |-> question.answers[k].isCorrect] ]
    ELSE <<>>

\* Keys of answerTargetCounts other than "No Answer", in insertion order:
\* the distinct clicked mesh ids in the order of their first click.
RECURSIVE ClickedKeys(_)
ClickedKeys(qSubs) ==
    IF qSubs = <<>> THEN <<>>
    ELSE LET before == ClickedKeys(SubSeq(qSubs, 1, Len(qSubs) - 1))
             ans == qSubs[Len(qSubs)]
         IN  IF /\ Truthy(ans, "responseText_ClickedMesh_id")
                /\ ans.responseText_ClickedMesh_id \notin Range(before)
             THEN Append(before, ans.responseText_ClickedMesh_id)
             ELSE before

\* Variant: a key is set to 1 instead of being incremented.
answerTargetCountsOnce(qSubs, key) ==
    IF key = "No Answer"
    THEN Cardinality({ i \in 1..Len(qSubs) :
             ~Truthy(qSubs[i], "responseText_ClickedMesh_id") })
    ELSE IF \E i \in 1..Len(qSubs) :
               /\ Truthy(qSubs[i], "responseText_ClickedMesh_id")
               /\ qSubs[i].responseText_ClickedMesh_id = key
    THEN 1 ELSE 0

\* answerTargetCounts[key] || 0
answerTargetCounts(qSubs, key) ==
    IF key = "No Answer"
    THEN Cardinality({ i \in 1..Len(qSubs) :
             ~Truthy(qSubs[i], "responseText_ClickedMesh_id") })
    ELSE Cardinality({ i \in 1..Len(qSubs) :
             /\ Truthy(qSubs[i], "responseText_ClickedMesh_id")
             /\ qSubs[i].responseText_ClickedMesh_id = key })

\* Variant: for a group target, a mesh of any group is correct.
IsCorrectMeshAnyGroup(question, meshIdStr, meshMap) ==
    IF ~HasField(question, "targetType") THEN FALSE
    ELSE IF question.targetType = "mesh"
    THEN HasField(question, "target_id") /\ meshIdStr = question.target_id
    ELSE IF question.targetType = "group"
    THEN \E detail \in MapGet(meshMap, meshIdStr) :
            HasField(detail, "organGroupIds") /\ detail.organGroupIds /= {}
    ELSE FALSE

\* Variant: a click counts as correct only for a mesh found in the catalog.
IsCorrectMeshInCatalog(question, meshIdStr, meshMap) ==
    IF ~HasField(question, "targetType") THEN FALSE
    ELSE IF question.targetType = "mesh"
    THEN /\ HasField(question, "target_id")
         /\ meshIdStr = question.target_id
         /\ MapGet(meshMap, meshIdStr) /= {}
    ELSE IF question.targetType = "group"
    THEN \E detail \in MapGet(meshMap, meshIdStr) :
            /\ HasField(detail, "organGroupIds")
            /\ HasField(question, "target_id")
            /\ \E groupId \in detail.organGroupIds :
                   groupId = question.target_id
    ELSE FALSE

\* isCorrect: the correctness of the mesh id an answer clicked.
IsCorrectMesh(question, meshIdStr, meshMap) ==
    IF ~HasField(question, "targetType") THEN FALSE
    ELSE IF question.targetType = "mesh"
    THEN HasField(question, "target_id") /\ meshIdStr = question.target_id
    ELSE IF question.targetType = "group"
    THEN \E detail \in MapGet(meshMap, meshIdStr) :
            /\ HasField(detail, "organGroupIds")
            /\ HasField(question, "target_id")
            /\ \E groupId \in detail.organGroupIds :
                   groupId = question.target_id
    ELSE FALSE

\* Variant: the row of a mesh target is compared through the catalog entry
\* of the mesh (meshDetail?._id), so a mesh the catalog lacks is never
\* flagged.
IsOptionCorrectByDetail(question, meshIdStr, meshMap) ==
    IF ~HasField(question, "targetType") THEN FALSE
    ELSE IF question.targetType = "mesh"
    THEN \E meshDetail \in MapGet(meshMap, meshIdStr) :
            HasField(question, "target_id")
            /\ meshDetail._id = question.target_id
    ELSE IF question.targetType = "group"
    THEN \E meshDetail \in MapGet(meshMap, meshIdStr) :
            /\ HasField(meshDetail, "organGroupIds")
            /\ HasField(question, "target_id")
            /\ \E gId \in meshDetail.organGroupIds :
                   gId = question.target_id
    ELSE FALSE

\* isOptionCorrect: the flag of the breakdown row of a mesh id, decided in
\* the loop over allClickedOrTargetMeshIds.
IsOptionCorrect(question, meshIdStr, meshMap) ==
    IF ~HasField(question, "targetType") THEN FALSE
    ELSE IF question.targetType = "mesh"
    THEN HasField(question, "target_id") /\ meshIdStr = question.target_id
    ELSE IF question.targetType = "group"
    THEN \E meshDetail \in MapGet(meshMap, meshIdStr) :
            /\ HasField(meshDetail, "organGroupIds")
            /\ HasField(question, "target_id")
            /\ \E gId \in meshDetail.organGroupIds :
                   gId = question.target_id
    ELSE FALSE

SelectOrganTotalCorrect(question, qSubs, meshMap) ==
    Cardinality({ i \in 1..Len(qSubs) :
        /\ Truthy(qSubs[i], "responseText_ClickedMesh_id")
        /\ IsCorrectMesh(question, qSubs[i].responseText_ClickedMesh_id,
                         meshMap) })

\* Variant: the target mesh is not added to the clicked ids.
ClickedOnlyMeshIds(question, qSubs) == ClickedKeys(qSubs)

\* Variant: the target is added whatever its kind.
allClickedOrTargetIdsAnyKind(question, qSubs) ==
    LET clicked == ClickedKeys(qSubs)
    IN  IF /\ HasField(question, "targetType")
           /\ Truthy(question, "target_id")
           /\ question.target_id \notin Range(clicked)
        THEN Append(clicked, question.target_id)
        ELSE clicked

\* The Set of clicked ids, with the target added for a mesh target.
allClickedOrTargetMeshIds(question, qSubs) ==
    LET clicked == ClickedKeys(qSubs)
    IN  IF /\ HasField(question, "targetType")
           /\ question.targetType = "mesh"
           /\ Truthy(question, "target_id")
           /\ question.target_id \notin Range(clicked)
        THEN Append(clicked, question.target_id)
        ELSE clicked

\* Variant: substring(6) instead of substring(0, 6).
MeshAnswerTextIdTail(meshIdStr, meshMap) ==
    IF \E detail \in MapGet(meshMap, meshIdStr) : Truthy(detail, "displayName")
    THEN (CHOOSE detail \in MapGet(meshMap, meshIdStr) : TRUE).displayName
    ELSE "Unknown Mesh (" \o SubSeq(meshIdStr, 7, Len(meshIdStr)) \o "...)"

\* meshDetail?.displayName || `Unknown Mesh (${id.substring(0, 6)}...)`
MeshAnswerText(meshIdStr, meshMap) ==
    IF \E detail \in MapGet(meshMap, meshIdStr) : Truthy(detail, "displayName")
    THEN (CHOOSE detail \in MapGet(meshMap, meshIdStr) : TRUE).displayName
    ELSE "Unknown Mesh ("
         \o SubSeq(meshIdStr, 1, IF Len(meshIdStr) < 6 THEN Len(meshIdStr)
                                 ELSE 6)
         \o "...)"

\* Variant: the "No Answer" row is pushed whatever its count.
SelectOrganBreakdownAlwaysNoAnswer(question, qSubs, meshMap) ==
    LET ids == allClickedOrTargetMeshIds(question, qSubs)
    IN  [ k \in 1..Len(ids) |->
            [answerText |-> MeshAnswerText(ids[k], meshMap),
             studentCount |-> answerTargetCounts(qSubs, ids[k]),
             isCorrectOption |->
                IsOptionCorrect(question, ids[k], meshMap)] ]
        \o <<[answerText |-> "No Answer",
              studentCount |-> answerTargetCounts(qSubs, "No Answer"),
              isCorrectOption |-> FALSE]>>

SelectOrganBreakdown(question, qSubs, meshMap) ==
    LET ids == allClickedOrTargetMeshIds(question, qSubs)
        meshRows ==
            [ k \in 1..Len(ids) |->
                [answerText |-> MeshAnswerText(ids[k], meshMap),
                 studentCount |-> answerTargetCounts(qSubs, ids[k]),
                 isCorrectOption |->
                    IsOptionCorrect(question, ids[k], meshMap)] ]
    IN  IF answerTargetCounts(qSubs, "No Answer") > 0
        THEN Append(meshRows,
                [answerText |-> "No Answer",
                 studentCount |-> answerTargetCounts(qSubs, "No Answer"),
                 isCorrectOption |-> FALSE])
        ELSE meshRows

\* Variant: ?? instead of ||, an empty text is kept.
currentSubmittedTextAnswersRaw(qSubs) ==
    [ i \in 1..Len(qSubs) |->
        IF HasField(qSubs[i], "responseText_ShortAnswer")
        THEN qSubs[i].responseText_ShortAnswer
        ELSE "No Answer" ]

\* submittedAnswer.responseText_ShortAnswer || "No Answer", per answer
currentSubmittedTextAnswers(qSubs) ==
    [ i \in 1..Len(qSubs) |->
        IF Truthy(qSubs[i], "responseText_ShortAnswer")
        THEN qSubs[i].responseText_ShortAnswer
        ELSE "No Answer" ]

\* Variant: the target of either kind is looked up in the mesh map.
currentCorrectTargetDisplayNameMeshMap(question, meshMap, groupMap) ==
    IF /\ question.type = "select-organ" /\ Truthy(question, "target_id")
       /\ HasField(question, "targetType")
       /\ question.targetType \in {"mesh", "group"}
    THEN [correctTargetDisplayName |->
            IF \E d \in MapGet(meshMap, question.target_id) :
                   Truthy(d, "displayName")
            THEN (CHOOSE d \in MapGet(meshMap, question.target_id) :
                    TRUE).displayName
            ELSE IF question.targetType = "mesh"
            THEN "Unknown Target Mesh" ELSE "Unknown Target Group"]
    ELSE <<>>

\* The optional correctTargetDisplayName field of a question's result.
currentCorrectTargetDisplayName(question, meshMap, groupMap) ==
    IF /\ question.type = "select-organ" /\ Truthy(question, "target_id")
       /\ HasField(question, "targetType")
    THEN IF question.targetType = "mesh"
         THEN [correctTargetDisplayName |->
                 IF \E d \in MapGet(meshMap, question.target_id) :
                        Truthy(d, "displayName")
                 THEN (CHOOSE d \in MapGet(meshMap, question.target_id) :
                         TRUE).displayName
                 ELSE "Unknown Target Mesh"]
         ELSE IF question.targetType = "group"
         THEN [correctTargetDisplayName |->
                 IF \E g \in MapGet(groupMap, question.target_id) :
                        Truthy(g, "groupName")
                 THEN (CHOOSE g \in MapGet(groupMap, question.target_id) :
                         TRUE).groupName
                 ELSE "Unknown Target Group"]
         ELSE <<>>
    ELSE <<>>

\* One QuestionResult, as serialised: a field that is undefined is absent.
QuestionResult(question, subs, meshMap, groupMap) ==
    LET qSubs == questionSubmissions(subs, question._id)
        isChoice == question.type \in {"multiple-choice", "true-false"}
        isOrgan == question.type = "select-organ"
    IN  [questionId |-> question._id,
         questionText |-> question.questionText,
         questionType |-> question.type,
         totalSubmissionsForQuestion |-> Len(qSubs),
         totalCorrect |->
            IF isChoice THEN ChoiceTotalCorrect(question, qSubs)
            ELSE IF isOrgan
            THEN SelectOrganTotalCorrect(question, qSubs, meshMap)
            ELSE 0,
         answersBreakdown |->
            IF isChoice THEN ChoiceBreakdown(question, qSubs)
            ELSE IF isOrgan
            THEN SelectOrganBreakdown(question, qSubs, meshMap)
            ELSE <<>>]
        @@ (IF question.type = "short-answer"
            THEN [submittedTextAnswers |-> currentSubmittedTextAnswers(qSubs)]
            ELSE <<>>)
        @@ currentCorrectTargetDisplayName(question, meshMap, groupMap)

\* Variant: unshift instead of push, the list comes out reversed.
RECURSIVE questionResultsReversed(_, _, _, _)
questionResultsReversed(questions, subs, meshMap, groupMap) ==
    IF questions = <<>> THEN <<>>
    ELSE questionResultsReversed(Tail(questions), subs, meshMap, groupMap)
         \o (IF Truthy(Head(questions), "_id")
             THEN <<QuestionResult(Head(questions), subs, meshMap, groupMap)>>
             ELSE <<>>)

\* Variant: a question nobody answered is skipped.
RECURSIVE questionResultsAnsweredOnly(_, _, _, _)
questionResultsAnsweredOnly(questions, subs, meshMap, groupMap) ==
    IF questions = <<>> THEN <<>>
    ELSE (IF /\ Truthy(Head(questions), "_id")
             /\ questionSubmissions(subs, Head(questions)._id) /= <<>>
          THEN <<QuestionResult(Head(questions), subs, meshMap, groupMap)>>
          ELSE <<>>)
         \o questionResultsAnsweredOnly(Tail(questions), subs, meshMap,
                                        groupMap)

\* The loop over quiz.questions; a question without _id is skipped.
RECURSIVE questionResults(_, _, _, _)
questionResults(questions, subs, meshMap, groupMap) ==
    IF questions = <<>> THEN <<>>
    ELSE (IF Truthy(Head(questions), "_id")
          THEN <<QuestionResult(Head(questions), subs, meshMap, groupMap)>>
          ELSE <<>>)
         \o questionResults(Tail(questions), subs, meshMap, groupMap)

\* Quiz.findById(id): the documents with that id (none or one).
FindQuizById(id) == { quiz \in quizzes : quiz._id = ObjectIdOf(id) }

\* The $in arguments of the two catalog queries of a request that finds its
\* quiz: Array.from(set).map(id => new Types.ObjectId(id)).
CatalogQueries(id) ==
    LET quiz == CHOOSE q \in FindQuizById(id) : TRUE
        subs == SubmissionsOfQuiz(ObjectIdOf(id))
    IN  [meshIds |-> { ObjectIdOf(m) : m \in itemIdsToFetch(quiz, subs) },
         groupIds |-> { ObjectIdOf(g) : g \in groupIdsToFetch(quiz) }]

\* Variant: a reference the catalogs do not resolve throws (displayName is
\* read without ?.), and the catch block answers 500.
ResultsResponseStrict(id) ==
    IF id = "" \/ ~IsValidObjectId(id)
    THEN [op |-> "GET results", id |-> id, status |-> 400,
          error |-> "Invalid Quiz ID format"]
    ELSE IF FindQuizById(id) = {}
    THEN [op |-> "GET results", id |-> id, status |-> 404,
          error |-> "Quiz not found"]
    ELSE LET quiz == CHOOSE q \in FindQuizById(id) : TRUE
             subs == SubmissionsOfQuiz(ObjectIdOf(id))
         IN  IF \/ \E m \in itemIdsToFetch(quiz, subs) :
                      MapGet(meshCatalog, m) = {}
                \/ \E g \in groupIdsToFetch(quiz) :
                      MapGet(organGroups, g) = {}
             THEN [op |-> "GET results", id |-> id, status |-> 500,
                   error |-> "Failed to get quiz results",
                   details |-> "TypeError"]
             ELSE [op |-> "GET results", id |-> id, status |-> 200,
                   body |-> questionResults(quiz.questions, subs,
                                            meshCatalogMap(quiz, subs),
                                            organGroupMap(quiz))]

\* Variant: the questionResults array lives at module scope, so a request
\* appends to the list the previous results request left behind.
ResultsResponseAccumulating(id) ==
    IF id = "" \/ ~IsValidObjectId(id)
    THEN [op |-> "GET results", id |-> id, status |-> 400,
          error |-> "Invalid Quiz ID format"]
    ELSE IF FindQuizById(id) = {}
    THEN [op |-> "GET results", id |-> id, status |-> 404,
          error |-> "Quiz not found"]
    ELSE LET quiz == CHOOSE q \in FindQuizById(id) : TRUE
             subs == SubmissionsOfQuiz(ObjectIdOf(id))
         IN  [op |-> "GET results", id |-> id, status |-> 200,
              body |-> (IF "body" \in DOMAIN response THEN response.body
                        ELSE <<>>)
                       \o questionResults(quiz.questions, subs,
                                          meshCatalogMap(quiz, subs),
                                          organGroupMap(quiz))]

ResultsResponse(id) ==
    IF id = "" \/ ~IsValidObjectId(id)
    THEN [op |-> "GET results", id |-> id, status |-> 400,
          error |-> "Invalid Quiz ID format"]
    ELSE IF FindQuizById(id) = {}
    THEN [op |-> "GET results", id |-> id, status |-> 404,
          error |-> "Quiz not found"]
    ELSE LET quiz == CHOOSE q \in FindQuizById(id) : TRUE
             subs == SubmissionsOfQuiz(ObjectIdOf(id))
         IN  [op |-> "GET results", id |-> id, status |-> 200,
              body |-> questionResults(quiz.questions, subs,
                                       meshCatalogMap(quiz, subs),
                                       organGroupMap(quiz))]

\* The storage operations of the route in the order it awaits them;
\* "dbConnect" comes before all of them, the id check included.
ResultsOperations ==
    <<"Quiz.findById", "Submission.find", "MeshCatalogItem.find",
      "OrganGroup.find">>

\* Variant: the catalogs are read before the quiz is looked up.
ResultsCallsPrefetch(status) ==
    IF status = 400 THEN <<>>
    ELSE IF status = 404
    THEN <<"MeshCatalogItem.find", "OrganGroup.find", "Quiz.findById">>
    ELSE ResultsOperations

\* The operations a request issues when none of them fails, by the return
\* statement it reaches: the 400 precedes every query, the 404 follows the
\* quiz lookup.
ResultsCalls(status) ==
    IF status = 400 THEN <<>>
    ELSE IF status = 404 THEN <<"Quiz.findById">>
    ELSE ResultsOperations

\* The position of the failing operation among the issued ones, 0 if none
\* of them fails.
FailedAt(calls, fault) ==
    IF fault \in Range(calls)
    THEN CHOOSE n \in 1..Len(calls) : calls[n] = fault
    ELSE 0

\* The catch block.
ResultsFailure(id, fault) ==
    [op |-> "GET results", id |-> id, status |-> 500,
     error |-> "Failed to get quiz results", details |-> fault]

\* The status of a request none of whose storage operations fails.
ResultsStatus(id) ==
    IF id = "" \/ ~IsValidObjectId(id) THEN 400
    ELSE IF FindQuizById(id) = {} THEN 404
    ELSE 200

\* Variant: the aggregate is saved on the quiz document.
GetResultsPersisting(id, fault) ==
    \E calls \in {ResultsCalls(ResultsStatus(id))} :
        /\ response' = IF fault = "dbConnect" \/ FailedAt(calls, fault) > 0
                       THEN ResultsFailure(id, fault)
                       ELSE ResultsResponse(id)
        /\ storageCalls' = calls
        /\ quizzes' = IF response'.status = 200
                      THEN { IF quiz \in FindQuizById(id)
                             THEN [results |-> response'.body] @@ quiz
                             ELSE quiz : quiz \in quizzes }
                      ELSE quizzes
        /\ UNCHANGED <<submissions, meshCatalog, organGroups>>

\* GET /api/quizzes/[id]/results; fault names the storage operation that
\* throws when it is awaited, "none" when every operation succeeds.
GetResults(id, fault) ==
    \E calls \in {ResultsCalls(ResultsStatus(id))} :
        \E failed \in {FailedAt(calls, fault)} :
            /\ response' = IF fault = "dbConnect" \/ failed > 0
                           THEN ResultsFailure(id, fault)
                           ELSE ResultsResponse(id)
            /\ storageCalls' = IF fault = "dbConnect" THEN <<>>
                               ELSE IF failed > 0
                               THEN SubSeq(calls, 1, failed)
                               ELSE calls
            /\ UNCHANGED <<quizzes, submissions, meshCatalog, organGroups>>

(***************************************************************************)
(* POST /api/submissions                                                   *)
(***************************************************************************)
\* Variant: only the question_id of an answer is checked.
AnswerIsRejectedIdOnly(ans) ==
    \/ ~Truthy(ans, "question_id")
    \/ ~IsValidObjectId(ans.question_id)

AnswerIsRejected(ans) ==
    \/ ~Truthy(ans, "question_id")
    \/ ~IsValidObjectId(ans.question_id)
    \/ ~(\/ HasField(ans, "selectedAnswerId_Index")
         \/ HasField(ans, "responseText_ClickedMesh_id")
         \/ HasField(ans, "responseText_ShortAnswer"))
    \/ /\ Truthy(ans, "responseText_ClickedMesh_id")
       /\ ~IsValidObjectId(ans.responseText_ClickedMesh_id)

\* The answer sub-document built from a request answer.
StoredAnswer(ans) ==
    [question_id |-> ObjectIdOf(ans.question_id)]
    @@ (IF HasField(ans, "selectedAnswerId_Index")
        THEN [selectedAnswerId_Index |-> ans.selectedAnswerId_Index]
        ELSE <<>>)
    @@ (IF Truthy(ans, "responseText_ClickedMesh_id")
        THEN [responseText_ClickedMesh_id |->
                ObjectIdOf(ans.responseText_ClickedMesh_id)]
        ELSE <<>>)
    @@ (IF HasField(ans, "responseText_ShortAnswer")
        THEN [responseText_ShortAnswer |-> ans.responseText_ShortAnswer]
        ELSE <<>>)

submissionData(body) ==
    [quiz_id |-> ObjectIdOf(body.quiz_id),
     studyYearAtSubmission |-> body.studyYearAtSubmission.number,
     submittedAt |-> body.submittedAt,
     answers |-> [ i \in 1..Len(body.answers) |->
                     StoredAnswer(body.answers[i]) ]]

\* Variant: the quiz is looked up as soon as its id is known to be valid.
SubmissionStatusQuizFirst(body) ==
    IF ~Truthy(body, "quiz_id") \/ ~IsValidObjectId(body.quiz_id) THEN 400
    ELSE IF FindQuizById(body.quiz_id) = {} THEN 404
    ELSE IF \/ ~HasField(body, "studyYearAtSubmission")
            \/ ~IsNumber(body.studyYearAtSubmission) THEN 400
    ELSE IF ~Truthy(body, "submittedAt") THEN 400
    ELSE IF ~HasField(body, "answers") \/ body.answers = <<>> THEN 400
    ELSE IF \E ans \in Range(body.answers) : AnswerIsRejected(ans) THEN 400
    ELSE 201

SubmissionStatus(body) ==
    IF ~Truthy(body, "quiz_id") \/ ~IsValidObjectId(body.quiz_id) THEN 400
    ELSE IF \/ ~HasField(body, "studyYearAtSubmission")
            \/ ~IsNumber(body.studyYearAtSubmission) THEN 400
    ELSE IF ~Truthy(body, "submittedAt") THEN 400
    ELSE IF ~HasField(body, "answers") \/ body.answers = <<>> THEN 400
    ELSE IF \E ans \in Range(body.answers) : AnswerIsRejected(ans) THEN 400
    ELSE IF FindQuizById(body.quiz_id) = {} THEN 404
    ELSE 201

TotalAnswers(subs) ==
    LET RECURSIVE Count(_)
        Count(s) == IF s = <<>> THEN 0
                    ELSE Len(Head(s).answers) + Count(Tail(s))
    IN  Count(subs)

PostSubmission(body) ==
    /\ response' = [op |-> "POST submissions",
                    status |-> SubmissionStatus(body)]
    /\ response'.status = 201 =>
           TotalAnswers(submissions) + Len(body.answers) <= MaxTotalAnswers
    /\ submissions' = IF response'.status = 201
                      THEN Append(submissions, submissionData(body))
                      ELSE submissions
    /\ storageCalls' = IF response'.status = 400 THEN <<>>
                       ELSE IF response'.status = 404 THEN <<"Quiz.findById">>
                       ELSE <<"Quiz.findById", "Submission.save">>
    /\ UNCHANGED <<quizzes, meshCatalog, organGroups>>

(***************************************************************************)
(* POST /api/mesh-catalog                                                  *)
(***************************************************************************)
\* MeshCatalogItem.create(body) throws on a missing required field and on a
\* duplicate _id or meshName (unique index).
MeshItemIsRejected(body) ==
    \/ ~Truthy(body, "meshName")
    \/ ~Truthy(body, "displayName")
    \/ HasField(body, "_id") /\ ~IsValidObjectId(body._id)
    \/ \E item \in meshCatalog :
          \/ item.meshName = body.meshName
          \/ HasField(body, "_id") /\ item._id = ObjectIdOf(body._id)

\* The stored document; the request bodies of the model carry their _id.
MeshItemDoc(body) ==
    [_id |-> ObjectIdOf(body._id), meshName |-> body.meshName,
     displayName |-> body.displayName,
     organGroupIds |-> IF HasField(body, "organGroupIds")
                       THEN { ObjectIdOf(g) : g \in body.organGroupIds }
                       ELSE {}]

PostMeshCatalog(body) ==
    /\ meshCatalog' = IF MeshItemIsRejected(body) THEN meshCatalog
                      ELSE meshCatalog \cup {MeshItemDoc(body)}
    /\ response' = [op |-> "POST mesh-catalog",
                    status |-> IF MeshItemIsRejected(body) THEN 500 ELSE 201]
    /\ storageCalls' = <<"MeshCatalogItem.create">>
    /\ UNCHANGED <<quizzes, submissions, organGroups>>

(***************************************************************************)
(* POST /api/quizzes                                                       *)
(***************************************************************************)
QuestionTypes ==
    {"multiple-choice", "true-false", "select-organ", "short-answer"}

\* new Types.ObjectId(): the n-th id generated for a quiz or a question.
GeneratedId(n) ==
    "65a1b2c3d4e5f60718293a0" \o SubSeq("0123456789", n + 1, n + 1)

\* answerSchema: a non-empty text and the isCorrect flag.
OptionIsRejected(ans) == ~Truthy(ans, "text") \/ ~HasField(ans, "isCorrect")

\* requestQuestionSchema, the union discriminated by type.
QuestionIsRejected(q) ==
    \/ ~Truthy(q, "questionText")
    \/ ~HasField(q, "type")
    \/ q.type \notin QuestionTypes
    \/ /\ q.type \in {"multiple-choice", "true-false"}
       /\ \/ ~HasField(q, "answers")
          \/ q.answers = <<>>
          \/ \E ans \in Range(q.answers) : OptionIsRejected(ans)
    \/ /\ q.type = "select-organ"
       /\ \/ ~HasField(q, "targetType")
          \/ q.targetType \notin {"mesh", "group"}
          \/ ~HasField(q, "target_id")
          \/ ~IsValidObjectId(q.target_id)
          \/ ~HasField(q, "answers")
    \/ /\ q.type = "short-answer"
       /\ ~HasField(q, "answers") \/ q.answers /= <<>>

\* quizRequestBodySchema.safeParse(body) fails.
QuizBodyIsRejected(body) ==
    \/ ~Truthy(body, "title")
    \/ ~HasField(body, "studyYear")
    \/ ~IsNumber(body.studyYear)
    \/ body.studyYear.number < 1
    \/ ~HasField(body, "questions")
    \/ body.questions = <<>>
    \/ \E q \in Range(body.questions) : QuestionIsRejected(q)

\* The options as the AnswerSchema keeps them.
StoredOptions(answers) ==
    [ k \in 1..Len(answers) |->
        [text |-> answers[k].text, isCorrect |-> answers[k].isCorrect] ]

\* The question sub-document of a created quiz; client keys the schema does
\* not name, _id among them, are stripped by the parse.
questionPayload(q, id) ==
    [_id |-> id, questionText |-> q.questionText, type |-> q.type,
     answers |-> StoredOptions(q.answers)]
    @@ (IF q.type = "select-organ"
        THEN [targetType |-> q.targetType,
              target_id |-> ObjectIdOf(q.target_id)]
        ELSE <<>>)

\* The document saved for a parsed body, ids generated from the n-th on.
quizData(body, n) ==
    [_id |-> GeneratedId(n + 1), title |-> body.title,
     studyYear |-> body.studyYear.number,
     questions |-> [ k \in 1..Len(body.questions) |->
                      questionPayload(body.questions[k],
                                      GeneratedId(n + 1 + k)) ]]

PostQuiz(body) ==
    IF QuizBodyIsRejected(body)
    THEN /\ response' = [op |-> "POST quizzes", status |-> 400]
         /\ storageCalls' = <<>>
         /\ UNCHANGED <<quizzes, submissions, meshCatalog, organGroups,
                        generated>>
    ELSE /\ quizzes' = quizzes \cup {quizData(body, generated)}
         /\ generated' = generated + 1 + Len(body.questions)
         /\ response' = [op |-> "POST quizzes", status |-> 201,
                         id |-> GeneratedId(generated + 1)]
         /\ storageCalls' = <<"Quiz.save">>
         /\ UNCHANGED <<submissions, meshCatalog, organGroups>>

(***************************************************************************)
(* PUT and DELETE /api/quizzes/[id]                                        *)
(***************************************************************************)
\* The checks of the loop over body.questions for one question.
PutQuestionIsRejected(q) ==
    \/ ~Truthy(q, "questionText")
    \/ ~Truthy(q, "type")
    \/ /\ q.type = "select-organ"
       /\ \/ ~Truthy(q, "targetType")
          \/ ~Truthy(q, "target_id")
          \/ q.targetType \notin {"mesh", "group"}
          \/ ~IsValidObjectId(q.target_id)

\* The question as the loop leaves it and the QuestionSchema casts it.
PutQuestion(q, id) ==
    [_id |-> id, questionText |-> q.questionText, type |-> q.type]
    @@ (IF HasField(q, "answers")
        THEN [answers |-> StoredOptions(q.answers)] ELSE <<>>)
    @@ (IF HasField(q, "targetType")
        THEN [targetType |-> q.targetType] ELSE <<>>)
    @@ (IF Truthy(q, "target_id")
        THEN [target_id |-> ObjectIdOf(q.target_id)] ELSE <<>>)

\* The loop over body.questions from the state reached so far: it stops with
\* 400 at the first question that fails a check and with 500 where
\* new Types.ObjectId(q._id) throws; a question without _id gets a new one.
RECURSIVE PutScan(_, _)
PutScan(rest, sofar) ==
    IF rest = <<>> \/ sofar.status /= 0 THEN sofar
    ELSE LET q == Head(rest)
         IN  IF PutQuestionIsRejected(q)
             THEN [sofar EXCEPT !.status = 400]
             ELSE IF Truthy(q, "_id")
             THEN IF IsValidObjectId(q._id)
                  THEN PutScan(Tail(rest),
                         [sofar EXCEPT !.questions =
                            Append(@, PutQuestion(q, ObjectIdOf(q._id)))])
                  ELSE [sofar EXCEPT !.status = 500]
             ELSE PutScan(Tail(rest),
                    [sofar EXCEPT
                       !.questions =
                          Append(@, PutQuestion(q,
                                       GeneratedId(sofar.generated + 1))),
                       !.generated = @ + 1])

\* The update validators of the QuestionSchema: the enums and the required
\* fields of an option.
QuestionFailsValidators(q) ==
    \/ q.type \notin QuestionTypes
    \/ HasField(q, "targetType") /\ q.targetType \notin {"mesh", "group"}
    \/ /\ HasField(q, "answers")
       /\ \E ans \in Range(q.answers) : OptionIsRejected(ans)

\* The checks that precede the loop over the questions.
PutBodyIsRejected(id, body) ==
    \/ id = "" \/ ~IsValidObjectId(id)
    \/ ~Truthy(body, "title") \/ ~HasField(body, "studyYear")
    \/ ~IsNumber(body.studyYear)

\* The status of the request after the loop has run: the loop's own, the
\* 400 of a ValidationError raised by findByIdAndUpdate with runValidators,
\* the 404 of a quiz that is not found, or 200.  An empty questions array
\* passes the required validator, and the _id of a sub-document is not
\* validated against the others.
PutStatus(id, body, scan) ==
    IF scan.status /= 0 THEN scan.status
    ELSE IF /\ HasField(body, "questions")
            /\ \E q \in Range(body.questions) : QuestionFailsValidators(q)
    THEN 400
    ELSE IF FindQuizById(id) = {} THEN 404
    ELSE 200

PutQuiz(id, body) ==
    IF PutBodyIsRejected(id, body)
    THEN /\ response' = [op |-> "PUT quiz", id |-> id, status |-> 400]
         /\ storageCalls' = <<>>
         /\ UNCHANGED <<quizzes, submissions, meshCatalog, organGroups,
                        generated>>
    ELSE \E scan \in
            { IF HasField(body, "questions")
              THEN PutScan(body.questions,
                           [status |-> 0, questions |-> <<>>,
                            generated |-> generated])
              ELSE [status |-> 0, generated |-> generated] } :
           /\ response' = [op |-> "PUT quiz", id |-> id,
                           status |-> PutStatus(id, body, scan)]
           /\ generated' = scan.generated
           /\ storageCalls' = IF scan.status /= 0 THEN <<>>
                              ELSE <<"Quiz.findByIdAndUpdate">>
           /\ quizzes' =
                 IF response'.status = 200
                 THEN { IF quiz \in FindQuizById(id)
                        THEN [quiz EXCEPT
                                !.title = body.title,
                                !.studyYear = body.studyYear.number,
                                !.questions =
                                    IF HasField(body, "questions")
                                    THEN scan.questions ELSE @]
                        ELSE quiz : quiz \in quizzes }
                 ELSE quizzes
           /\ UNCHANGED <<submissions, meshCatalog, organGroups>>

\* Variant: the submissions of the deleted quiz are deleted with it.
DeleteQuizCascading(id) ==
    \E status \in { IF id = "" \/ ~IsValidObjectId(id) THEN 400
                     ELSE IF FindQuizById(id) = {} THEN 404
                     ELSE 200 } :
        /\ response' = [op |-> "DELETE quiz", id |-> id, status |-> status]
        /\ storageCalls' = IF status = 400 THEN <<>>
                           ELSE <<"Quiz.findByIdAndDelete",
                                  "Submission.deleteMany">>
        /\ quizzes' = quizzes \ FindQuizById(id)
        /\ submissions' =
              IF status = 200
              THEN SelectSeq(submissions,
                             LAMBDA sub : sub.quiz_id /= ObjectIdOf(id))
              ELSE submissions
        /\ UNCHANGED <<meshCatalog, organGroups, generated>>

DeleteQuiz(id) ==
    \E status \in { IF id = "" \/ ~IsValidObjectId(id) THEN 400
                     ELSE IF FindQuizById(id) = {} THEN 404
                     ELSE 200 } :
        /\ response' = [op |-> "DELETE quiz", id |-> id, status |-> status]
        /\ storageCalls' = IF status = 400 THEN <<>>
                           ELSE <<"Quiz.findByIdAndDelete">>
        /\ quizzes' = IF status = 200 THEN quizzes \ FindQuizById(id)
                      ELSE quizzes
        /\ UNCHANGED <<submissions, meshCatalog, organGroups, generated>>

(***************************************************************************)
(* GET /api/submissions                                                    *)
(***************************************************************************)
\* populate({path: "quiz_id", select: "title studyYear"}): the quiz document
\* in place of its id, null (here "") when no quiz has the id.
Populated(sub) ==
    [sub EXCEPT !.quiz_id =
        IF \E quiz \in quizzes : quiz._id = sub.quiz_id
        THEN LET quiz == CHOOSE x \in quizzes : x._id = sub.quiz_id
             IN  [_id |-> quiz._id, title |-> quiz.title,
                  studyYear |-> quiz.studyYear]
        ELSE [_id |-> ""]]

\* Variant: submissions whose quiz is not found are left out of the list.
GetSubmissionsOfStoredQuizzes(quizId) ==
    /\ response' =
          [op |-> "GET submissions", status |-> 200,
           data |-> LET found ==
                          IF quizId /= "" /\ IsValidObjectId(quizId)
                          THEN SubmissionsOfQuiz(ObjectIdOf(quizId))
                          ELSE submissions
                        kept ==
                          SelectSeq(found,
                                    LAMBDA sub : \E quiz \in quizzes :
                                                    quiz._id = sub.quiz_id)
                    IN  [ k \in 1..Len(kept) |-> Populated(kept[k]) ]]
    /\ storageCalls' = <<"Submission.find">>
    /\ UNCHANGED <<quizzes, submissions, meshCatalog, organGroups>>

\* The sort by submittedAt, latest first: the submissions of the model all
\* carry one submittedAt, and the stable sort keeps their order.
GetSubmissions(quizId) ==
    /\ response' =
          [op |-> "GET submissions", status |-> 200,
           data |-> LET found ==
                          IF quizId /= "" /\ IsValidObjectId(quizId)
                          THEN SubmissionsOfQuiz(ObjectIdOf(quizId))
                          ELSE submissions
                    IN  [ k \in 1..Len(found) |-> Populated(found[k]) ]]
    /\ storageCalls' = <<"Submission.find">>
    /\ UNCHANGED <<quizzes, submissions, meshCatalog, organGroups>>

(***************************************************************************)
(* Requests                                                                *)
(***************************************************************************)
\* Catalog items a client posts: the mesh the seeded catalog lacks, a second
\* item under a taken meshName, and one without displayName.
MeshBodies ==
    { [_id |-> UpperHex(MeshGone), meshName |-> "spleen",
       displayName |-> "Spleen", organGroupIds |-> {GroupLost}],
      [_id |-> MeshGone, meshName |-> "heart", displayName |-> "Heart 2"],
      [_id |-> MeshGone, meshName |-> "liver"] }

MeshRadiusUpper == UpperHex(MeshRadius)
QuizIdAUpper == UpperHex(QuizIdA)

\* The id of a quiz as its clients write it.
IdText(quizId) == IF quizId = QuizIdA THEN QuizIdAUpper ELSE quizId

\* The answer payloads a client sends for a question of the given kind; the
\* last one of each kind lacks the field the kind is scored by.
AnswerShapes(question) ==
    IF question.type \in {"multiple-choice", "true-false"}
    THEN { [selectedAnswerId_Index |-> i] : i \in {-1, 0, 1, 3} }
         \cup { [responseText_ShortAnswer |-> "Breathing"] }
    ELSE IF question.type = "select-organ"
    THEN { [responseText_ClickedMesh_id |-> m] :
             m \in {MeshHeart, MeshLung, MeshGone, ""}
                   \cup (IF question.targetType = "group"
                         THEN {MeshRadiusUpper} ELSE {}) }
    ELSE { [responseText_ShortAnswer |-> "Breathing"],
           [responseText_ShortAnswer |-> ""],
           [selectedAnswerId_Index |-> 1] }

AnswerInputs(quiz) ==
    UNION { { [question_id |-> q._id] @@ shape : shape \in AnswerShapes(q) } :
              q \in Range(quiz.questions) }

SubmittedAt == "2025-05-19T10:00:00.000Z"

\* Well-formed request bodies for the stored quizzes, of at most n answers.
AcceptableBodies(n) ==
    UNION { { [quiz_id |-> IdText(quiz._id), studyYearAtSubmission |-> Num(1),
               submittedAt |-> SubmittedAt, answers |-> answers] :
                answers \in UNION { [1..len -> AnswerInputs(quiz)] :
                                      len \in 1..n } } :
            quiz \in quizzes }

\* Request bodies the route rejects.
RejectedBodies ==
    { [quiz_id |-> "invalid_id", studyYearAtSubmission |-> Num(1),
       submittedAt |-> SubmittedAt,
       answers |-> <<[question_id |-> qSA._id,
                      responseText_ShortAnswer |-> "Breathing"]>>],
      [quiz_id |-> QuizIdA, studyYearAtSubmission |-> Num(1),
       submittedAt |-> SubmittedAt, answers |-> <<>>],
      [quiz_id |-> QuizIdA, studyYearAtSubmission |-> Num(1),
       submittedAt |-> SubmittedAt,
       answers |-> <<[question_id |-> qSA._id]>>],
      [quiz_id |-> NoQuizId, studyYearAtSubmission |-> Num(1),
       submittedAt |-> SubmittedAt,
       answers |-> <<[question_id |-> qSA._id,
                      responseText_ShortAnswer |-> "Breathing"]>>] }

ResultIds ==
    { IdText(quiz._id) : quiz \in quizzes } \cup {"invalid_id", NoQuizId}

(***************************************************************************)
(* Specification                                                           *)
(***************************************************************************)
Init ==
    /\ quizzes \in SeedQuizzes
    /\ submissions = <<>>
    /\ meshCatalog = SeedMeshCatalog
    /\ organGroups = SeedOrganGroups
    /\ response = [op |-> "none", status |-> 0]
    /\ storageCalls = <<>>
    /\ generated = 0
    /\ request = [op |-> "none"]
    /\ earlier = [id |-> ""]

Submit ==
    /\ \E body \in
            AcceptableBodies(MaxTotalAnswers - TotalAnswers(submissions))
            \cup RejectedBodies :
          PostSubmission(body)
    /\ UNCHANGED <<generated, request, earlier>>

Results ==
    /\ \E id \in ResultIds : GetResults(id, "none")
    /\ UNCHANGED <<generated, request, earlier>>

AddMesh ==
    /\ \E body \in MeshBodies : PostMeshCatalog(body)
    /\ UNCHANGED <<generated, request, earlier>>

Next == Submit \/ Results \/ AddMesh

Spec == Init /\ [][Next]_vars

(***************************************************************************)
(* Specification with failing storage operations                           *)
(***************************************************************************)
\* With the storage failures the log holds at most this many answer entries.
MaxFaultAnswers == 1

\* What may throw in the results route: the connection and the four queries.
Faults == {"none", "dbConnect"} \cup Range(ResultsOperations)

FaultSeedQuizzes ==
    { {QuizDoc(QuizIdA, <<qMesh, qGroupLost>>)},
      {QuizDoc(QuizIdA, <<qTF>>), QuizDoc(QuizIdB, <<qTF>>)} }

InitFaults ==
    /\ quizzes \in FaultSeedQuizzes
    /\ submissions = <<>>
    /\ meshCatalog = SeedMeshCatalog
    /\ organGroups = SeedOrganGroups
    /\ response = [op |-> "none", status |-> 0]
    /\ storageCalls = <<>>
    /\ generated = 0
    /\ request = [op |-> "none"]
    /\ earlier = [id |-> ""]

SubmitFew ==
    /\ \E body \in
            AcceptableBodies(MaxFaultAnswers - TotalAnswers(submissions))
            \cup RejectedBodies :
          PostSubmission(body)
    /\ UNCHANGED <<generated, request, earlier>>

ResultsOrFailure ==
    /\ \E id \in ResultIds \cup {"507f1f77bcf86cd79943901g"} :
          \E fault \in Faults : GetResults(id, fault)
    /\ UNCHANGED <<generated, request, earlier>>

NextFaults == SubmitFew \/ ResultsOrFailure \/ AddMesh

SpecFaults == InitFaults /\ [][NextFaults]_vars

(***************************************************************************)
(* Specification observing repeated results requests                       *)
(***************************************************************************)
\* With the observation the log holds at most this many submissions.
MaxRepeatSubmissions == 2

RepeatSeedQuizzes ==
    { {QuizDoc(QuizIdA, <<qTF>>), QuizDoc(QuizIdB, <<qTF>>)},
      {QuizDoc(QuizIdA, <<qMeshGone>>), QuizDoc(QuizIdB, <<qSA>>)} }

InitRepeat ==
    /\ quizzes \in RepeatSeedQuizzes
    /\ submissions = <<>>
    /\ meshCatalog = SeedMeshCatalog
    /\ organGroups = SeedOrganGroups
    /\ response = [op |-> "none", status |-> 0]
    /\ storageCalls = <<>>
    /\ generated = 0
    /\ request = [op |-> "none"]
    /\ earlier = [id |-> ""]

\* One answer per submission, of the first two payloads of its kind.
RepeatBodies ==
    { [quiz_id |-> IdText(quiz._id), studyYearAtSubmission |-> Num(1),
       submittedAt |-> SubmittedAt,
       answers |-> <<[question_id |-> quiz.questions[1]._id] @@ shape>>] :
        quiz \in quizzes,
        shape \in { [selectedAnswerId_Index |-> 0],
                    [responseText_ShortAnswer |-> "Breathing"],
                    [responseText_ClickedMesh_id |-> MeshGone] } }

\* The number of requests served after the observed one: 0, 1 or more.
Later(n) == IF n < 2 THEN n + 1 ELSE 2

\* The observation after a request other than the one observed.
Aged == IF earlier.id = "" THEN earlier
        ELSE [earlier EXCEPT !.later = Later(earlier.later)]

\* The results response just computed, with what the route read for it.
Observation ==
    [id |-> response'.id,
     quiz |-> { quiz \in quizzes : IdText(quiz._id) = response'.id },
     subs |-> SelectSeq(submissions,
                        LAMBDA sub : IdText(sub.quiz_id) = response'.id),
     meshCatalog |-> meshCatalog, organGroups |-> organGroups,
     body |-> response'.body, later |-> 0]

SubmitObserved ==
    /\ Len(submissions) < MaxRepeatSubmissions
    /\ \E body \in RepeatBodies : PostSubmission(body)
    /\ earlier' = Aged
    /\ UNCHANGED <<generated, request>>

\* A results request; the first 200 response may be taken as the observed
\* one, any request after it ages the observation.
ResultsObserved ==
    /\ \E id \in ResultIds : GetResults(id, "none")
    /\ \/ earlier.id = "" /\ response'.status = 200
          /\ earlier' = Observation
       \/ earlier' = Aged
    /\ UNCHANGED <<generated, request>>

AddMeshObserved ==
    /\ \E body \in MeshBodies : PostMeshCatalog(body)
    /\ earlier' = Aged
    /\ UNCHANGED <<generated, request>>

NextRepeat == SubmitObserved \/ ResultsObserved \/ AddMeshObserved

SpecRepeat == InitRepeat /\ [][NextRepeat]_vars

(***************************************************************************)
(* Specification recording the catalog queries                             *)
(***************************************************************************)
\* With the recorded queries the log holds at most this many answer entries.
MaxReadAnswers == 2

ReadSeedQuizzes ==
    { {QuizDoc(QuizIdA, <<qMesh, qGroupLost, qGroup>>)},
      {QuizDoc(QuizIdA, <<qMC>>), QuizDoc(QuizIdB, <<qMeshGone>>)} }

InitReads ==
    /\ quizzes \in ReadSeedQuizzes
    /\ submissions = <<>>
    /\ meshCatalog = SeedMeshCatalog
    /\ organGroups = SeedOrganGroups
    /\ response = [op |-> "none", status |-> 0]
    /\ storageCalls = <<>>
    /\ generated = 0
    /\ request = [op |-> "none"]
    /\ earlier = [id |-> ""]

\* Answers to the first question of a quiz, and clicks sent with the id of
\* a question that is not a select-organ question.
ReadBodies ==
    { [quiz_id |-> IdText(quiz._id), studyYearAtSubmission |-> Num(1),
       submittedAt |-> SubmittedAt,
       answers |-> <<[question_id |-> quiz.questions[1]._id] @@ shape>>] :
        quiz \in quizzes,
        shape \in { [responseText_ClickedMesh_id |-> MeshHeart],
                    [responseText_ClickedMesh_id |-> MeshGone],
                    [responseText_ClickedMesh_id |-> MeshRadiusUpper],
                    [selectedAnswerId_Index |-> 1] } }

SubmitRead ==
    /\ TotalAnswers(submissions) < MaxReadAnswers
    /\ \E body \in ReadBodies : PostSubmission(body)
    /\ request' = [op |-> "POST submissions"]
    /\ UNCHANGED <<generated, earlier>>

\* A results request, observed with the arguments of its catalog queries.
ResultsRead ==
    /\ \E id \in ResultIds :
          /\ GetResults(id, "none")
          /\ request' = [op |-> "GET results", id |-> id]
                        @@ (IF response'.status = 200
                            THEN CatalogQueries(id) ELSE <<>>)
    /\ UNCHANGED <<generated, earlier>>

NextReads == SubmitRead \/ ResultsRead

SpecReads == InitReads /\ [][NextReads]_vars

(***************************************************************************)
(* Specification comparing the results of two requests                     *)
(***************************************************************************)
\* With the comparison the log holds at most this many submissions.
MaxAppendSubmissions == 2

\* Two quizzes that share the question qTF.
AppendSeedQuizzes ==
    {QuizDoc(QuizIdA, <<qMeshGone, qTF>>), QuizDoc(QuizIdB, <<qTF>>)}

InitAppend ==
    /\ quizzes = AppendSeedQuizzes
    /\ submissions = <<>>
    /\ meshCatalog = SeedMeshCatalog
    /\ organGroups = SeedOrganGroups
    /\ response = [op |-> "none", status |-> 0]
    /\ storageCalls = <<>>
    /\ generated = 0
    /\ request = [op |-> "none"]
    /\ earlier = [id |-> ""]

\* Answer lists with an entry for one question, for both, with two entries
\* for one question, and with an entry for the id of a question of no quiz;
\* sent for the second quiz, the entries for qMeshGone match no question.
AppendAnswers ==
    { <<[question_id |-> qTF._id, selectedAnswerId_Index |-> 0]>>,
      <<[question_id |-> qMeshGone._id,
         responseText_ClickedMesh_id |-> MeshGone]>>,
      <<[question_id |-> qTF._id, selectedAnswerId_Index |-> 1],
        [question_id |-> qMeshGone._id,
         responseText_ClickedMesh_id |-> MeshHeart]>>,
      <<[question_id |-> qTF._id, selectedAnswerId_Index |-> 0],
        [question_id |-> qTF._id, selectedAnswerId_Index |-> 1]>>,
      <<[question_id |-> qMC._id, selectedAnswerId_Index |-> 0]>> }

AppendBodies ==
    { [quiz_id |-> IdText(quiz._id), studyYearAtSubmission |-> Num(1),
       submittedAt |-> SubmittedAt, answers |-> answers] :
        quiz \in quizzes, answers \in AppendAnswers }

SubmitAppended ==
    /\ Len(submissions) < MaxAppendSubmissions
    /\ \E body \in AppendBodies : PostSubmission(body)
    /\ UNCHANGED <<generated, request, earlier>>

\* A results request; the first 200 response may be kept as the one later
\* responses are compared with.
ResultsCompared ==
    /\ \E id \in ResultIds : GetResults(id, "none")
    /\ \/ earlier.id = "" /\ response'.status = 200
          /\ earlier' = Observation
       \/ UNCHANGED earlier
    /\ UNCHANGED <<generated, request>>

NextAppend == SubmitAppended \/ ResultsCompared

SpecAppend == InitAppend /\ [][NextAppend]_vars

(***************************************************************************)
(* Specification of the quiz and submission routes                         *)
(***************************************************************************)
\* At most this many ObjectIds are generated for quizzes and questions.
MaxGenerated == 2

\* With the quiz routes the log holds at most this many submissions.
MaxApiSubmissions == 1

\* Questions as a client writes them.
rMC == [questionText |-> "What is 2 + 2?", type |-> "multiple-choice",
        answers |-> <<Option("3", FALSE), Option("4", TRUE)>>]
rMCNoAnswers == [questionText |-> "What is 2 + 2?",
                 type |-> "multiple-choice"]
rTFEmpty == [questionText |-> "Bones are alive", type |-> "true-false",
             answers |-> <<>>]
rOrgan == [questionText |-> "Select the heart", type |-> "select-organ",
           targetType |-> "mesh", target_id |-> UpperHex(MeshHeart),
           answers |-> <<>>]
rOrganNoTargetType ==
    [questionText |-> "Select the heart", type |-> "select-organ",
     target_id |-> MeshHeart, answers |-> <<>>]
rOrganBadTarget ==
    [questionText |-> "Select the heart", type |-> "select-organ",
     targetType |-> "group", target_id |-> "upper-limb", answers |-> <<>>]
rOrganBone ==
    [questionText |-> "Select the heart", type |-> "select-organ",
     targetType |-> "bone", target_id |-> MeshHeart, answers |-> <<>>]

\* A question _id chosen by the client.
ClientId == "C0FFEE77BCF86CD799439012"
WithId(q, id) == [_id |-> id] @@ q

QuizBody(questions) ==
    [title |-> "Test Quiz", studyYear |-> Num(1), questions |-> questions]

CreateBodies ==
    { QuizBody(questions) :
        questions \in { <<rMC>>, <<rMCNoAnswers>>, <<rTFEmpty>>,
                        <<rOrganNoTargetType>>, <<rOrganBadTarget>>,
                        <<rOrganBone>>, <<>> } }

\* Updates sent for a stored quiz: questions under ids of the client, two of
\* them under one id, a question without id, questions that lack fields of
\* their type, no question and no questions field.
UpdateBodies ==
    { QuizBody(questions) :
        questions \in { <<rMC>>, <<WithId(rOrgan, ClientId)>>,
                        <<WithId(rMC, ClientId), WithId(rOrgan, ClientId)>>,
                        <<WithId(rMCNoAnswers, ClientId)>>,
                        <<WithId(rTFEmpty, ClientId)>>,
                        <<rOrganNoTargetType>>, <<rOrganBadTarget>>,
                        <<rOrganBone>>, <<WithId(rMC, "q1")>>, <<>> } }
    \cup { [title |-> "Test Quiz", studyYear |-> Num(1)],
           [title |-> "Test Quiz", studyYear |-> Str("first"),
            questions |-> <<rMC>>],
           [studyYear |-> Num(1), questions |-> <<rOrganNoTargetType>>] }

\* The ids the clients of the quiz routes use.
ApiQuizIds ==
    { IdText(quiz._id) : quiz \in quizzes }
    \cup {QuizIdAUpper, NoQuizId, "invalid_id"}

\* The update requests: every body for a stored quiz, three of them for an
\* id that names no quiz or is malformed.
UpdateRequests ==
    { [id |-> IdText(quiz._id), body |-> body] :
        quiz \in quizzes, body \in UpdateBodies }
    \cup { [id |-> id, body |-> QuizBody(questions)] :
             id \in {NoQuizId, "invalid_id"},
             questions \in { <<WithId(rOrgan, ClientId)>>,
                             <<WithId(rMCNoAnswers, ClientId)>>,
                             <<rOrganNoTargetType>> } }

ApiAnswer(shape) == <<[question_id |-> qMC._id] @@ shape>>

ApiBody(quizId, answers) ==
    [quiz_id |-> quizId, studyYearAtSubmission |-> Num(1),
     submittedAt |-> SubmittedAt, answers |-> answers]

\* Submissions for the seeded quiz, with answers of one shape, of two shapes
\* and of none, and submissions for a quiz that was never stored, among
\* them bodies that lack a field or carry a malformed one.
ApiBodies ==
    { ApiBody(QuizIdAUpper, ApiAnswer(shape)) :
        shape \in { [selectedAnswerId_Index |-> 1],
                    [selectedAnswerId_Index |-> 0,
                     responseText_ShortAnswer |-> "Breathing"],
                    <<>> } }
    \cup
    { ApiBody(NoQuizId, answers) :
        answers \in
          { ApiAnswer([selectedAnswerId_Index |-> 1]),
            ApiAnswer(<<>>),
            ApiAnswer([responseText_ClickedMesh_id |-> "heart"]),
            <<[question_id |-> "q1", selectedAnswerId_Index |-> 1]>>,
            <<[selectedAnswerId_Index |-> 1]>>,
            <<>> } }
    \cup { ApiBody("invalid_id", ApiAnswer([selectedAnswerId_Index |-> 1])),
           [ApiBody(NoQuizId, ApiAnswer([selectedAnswerId_Index |-> 1]))
              EXCEPT !.studyYearAtSubmission = Str("first")],
           [ApiBody(NoQuizId, ApiAnswer([selectedAnswerId_Index |-> 1]))
              EXCEPT !.submittedAt = ""],
           [quiz_id |-> NoQuizId, studyYearAtSubmission |-> Num(1),
            submittedAt |-> SubmittedAt],
           [quiz_id |-> NoQuizId, submittedAt |-> SubmittedAt,
            answers |-> ApiAnswer([selectedAnswerId_Index |-> 1])],
           [studyYearAtSubmission |-> Num(1), submittedAt |-> SubmittedAt,
            answers |-> ApiAnswer([selectedAnswerId_Index |-> 1])] }

InitApi ==
    /\ quizzes = {QuizDoc(QuizIdA, <<qMC>>)}
    /\ submissions = <<>>
    /\ meshCatalog = SeedMeshCatalog
    /\ organGroups = SeedOrganGroups
    /\ response = [op |-> "none", status |-> 0]
    /\ storageCalls = <<>>
    /\ generated = 0
    /\ request = [op |-> "none"]
    /\ earlier = [id |-> ""]

SubmitApi ==
    /\ \E body \in ApiBodies :
          /\ PostSubmission(body)
          /\ request' = [op |-> "POST submissions", body |-> body]
    /\ Len(submissions') <= MaxApiSubmissions
    /\ UNCHANGED <<generated, earlier>>

ListApi ==
    /\ \E quizId \in {"", QuizIdAUpper, "invalid_id"} :
          /\ GetSubmissions(quizId)
          /\ request' = [op |-> "GET submissions", quiz_id |-> quizId]
    /\ UNCHANGED <<generated, earlier>>

ResultsApi ==
    /\ \E id \in ApiQuizIds :
          /\ GetResults(id, "none")
          /\ request' = [op |-> "GET results", id |-> id]
    /\ UNCHANGED <<generated, earlier>>

\* Beside the submissions the clients create a quiz, replace the question of
\* a stored quiz and delete quizzes.
CreateApi ==
    /\ \E body \in {QuizBody(<<rMC>>), QuizBody(<<>>)} :
          /\ PostQuiz(body)
          /\ request' = [op |-> "POST quizzes", body |-> body]
    /\ generated' <= MaxGenerated
    /\ UNCHANGED earlier

UpdateApi ==
    /\ \E id \in ApiQuizIds :
          \E body \in {QuizBody(<<WithId(rOrgan, ClientId)>>)} :
             /\ PutQuiz(id, body)
             /\ request' = [op |-> "PUT quiz", id |-> id, body |-> body]
    /\ generated' <= MaxGenerated
    /\ UNCHANGED earlier

\* The ids of the quizzes deleted so far, as the observation keeps them.
Deleted == IF HasField(earlier, "deleted") THEN earlier.deleted ELSE {}

\* A deletion answered with 200 is remembered with the id of its quiz.
DeleteApi ==
    /\ \E id \in ApiQuizIds :
          /\ DeleteQuiz(id)
          /\ request' = [op |-> "DELETE quiz", id |-> id]
          /\ earlier' = IF response'.status = 200
                        THEN [id |-> "",
                              deleted |-> Deleted \cup {ObjectIdOf(id)}]
                        ELSE earlier

NextApi ==
    SubmitApi \/ ListApi \/ ResultsApi \/ CreateApi \/ UpdateApi \/ DeleteApi

SpecApi == InitApi /\ [][NextApi]_vars

(***************************************************************************)
(* Specification of the quiz routes                                        *)
(***************************************************************************)
CreateQuiz ==
    /\ \E body \in CreateBodies :
          /\ PostQuiz(body)
          /\ request' = [op |-> "POST quizzes", body |-> body]
    /\ generated' <= MaxGenerated
    /\ UNCHANGED earlier

UpdateQuiz ==
    /\ \E req \in UpdateRequests :
          /\ PutQuiz(req.id, req.body)
          /\ request' = [op |-> "PUT quiz", id |-> req.id,
                         body |-> req.body]
    /\ generated' <= MaxGenerated
    /\ UNCHANGED earlier

RemoveQuiz ==
    /\ \E id \in ApiQuizIds :
          /\ DeleteQuiz(id)
          /\ request' = [op |-> "DELETE quiz", id |-> id]
    /\ UNCHANGED earlier

NextQuizzes == CreateQuiz \/ UpdateQuiz \/ RemoveQuiz

SpecQuizzes == InitApi /\ [][NextQuizzes]_vars

(***************************************************************************)
(* Vocabulary of the properties.  A results response is examined in the    *)
(* state it was produced in, where the collections are what the route      *)
(* read.  The answer of a submission to a question is the submission's     *)
(* first entry carrying the question's id.                                 *)
(***************************************************************************)
Served == response.op = "GET results" /\ response.status = 200

ServedQuiz == CHOOSE quiz \in quizzes : IdText(quiz._id) = response.id

ServedSubs ==
    LET mine == { k \in 1..Len(submissions) :
                    submissions[k].quiz_id = ServedQuiz._id }
        RECURSIVE InOrder(_)
        InOrder(k) == IF k > Len(submissions) THEN <<>>
                      ELSE (IF k \in mine THEN <<submissions[k]>> ELSE <<>>)
                           \o InOrder(k + 1)
    IN  InOrder(1)

EntriesFor(sub, questionId) ==
    { i \in 1..Len(sub.answers) : sub.answers[i].question_id = questionId }

\* The answers counted for a question, one per answering submission.
CountedAnswers(questionId) ==
    LET answering == { k \in 1..Len(ServedSubs) :
                         EntriesFor(ServedSubs[k], questionId) /= {} }
        First(sub) == sub.answers[CHOOSE i \in EntriesFor(sub, questionId) :
                          \A j \in EntriesFor(sub, questionId) : i <= j]
        RECURSIVE InOrder(_)
        InOrder(k) == IF k > Len(ServedSubs) THEN <<>>
                      ELSE (IF k \in answering
                            THEN <<First(ServedSubs[k])>> ELSE <<>>)
                           \o InOrder(k + 1)
    IN  InOrder(1)

RECURSIVE SumStudentCount(_)
SumStudentCount(rows) ==
    IF rows = <<>> THEN 0
    ELSE Head(rows).studentCount + SumStudentCount(Tail(rows))

CorrectRows(rows) == SelectSeq(rows, LAMBDA row : row.isCorrectOption)

IsChoice(question) == question.type \in {"multiple-choice", "true-false"}

HasValidIndex(question, ans) ==
    /\ "selectedAnswerId_Index" \in DOMAIN ans
    /\ 0 <= ans.selectedAnswerId_Index
    /\ ans.selectedAnswerId_Index < Len(question.answers)

Clicked(ans) ==
    /\ "responseText_ClickedMesh_id" \in DOMAIN ans
    /\ ans.responseText_ClickedMesh_id /= ""

InCatalog(meshId) == \E item \in meshCatalog : item._id = meshId

InGroup(meshId, groupId) ==
    \E item \in meshCatalog :
        item._id = meshId /\ groupId \in item.organGroupIds

\* The questions of the served quiz by position.
Positions == 1..Len(ServedQuiz.questions)
QuestionAt(i) == ServedQuiz.questions[i]
ResultAt(i) == response.body[i]

(***************************************************************************)
(* Properties of the results response                                      *)
(***************************************************************************)

\* C1: the result list of a found quiz has one entry per question of the
\* quiz, and the i-th entry carries the id of the i-th question.
C1_OrderPreservation ==
    Served =>
        /\ Len(response.body) = Len(ServedQuiz.questions)
        /\ \A i \in Positions : response.body[i].questionId = QuestionAt(i)._id

C1_Witness ==
    /\ Served
    /\ Len(ServedQuiz.questions) >= 2
    /\ QuestionAt(1).type /= QuestionAt(2).type
    /\ Len(ServedSubs) >= 1
    /\ CountedAnswers(QuestionAt(2)._id) /= <<>>
    /\ CountedAnswers(QuestionAt(1)._id) = <<>>

\* C2: for a multiple-choice or true-false question the studentCount values
\* of the breakdown add up to the number of submissions whose answer has a
\* selected index i with 0 <= i < number of options.
C2_TallyConservation ==
    Served =>
        \A i \in Positions :
            IsChoice(QuestionAt(i)) =>
                LET counted == CountedAnswers(QuestionAt(i)._id)
                IN  SumStudentCount(ResultAt(i).answersBreakdown)
                    = Cardinality({ k \in 1..Len(counted) :
                          HasValidIndex(QuestionAt(i), counted[k]) })

\* A valid answer next to a missing, a negative or a too large index.
C2_Witness ==
    /\ Served
    /\ IsChoice(QuestionAt(1))
    /\ LET counted == CountedAnswers(QuestionAt(1)._id)
       IN  /\ Len(counted) = 2
           /\ HasValidIndex(QuestionAt(1), counted[1])
           /\ ~HasValidIndex(QuestionAt(1), counted[2])
           /\ SumStudentCount(ResultAt(1).answersBreakdown) = 1

\* C3: for a multiple-choice or true-false question totalCorrect is the sum
\* of studentCount over the breakdown entries flagged isCorrectOption.
C3_CorrectnessConsistency ==
    Served =>
        \A i \in Positions :
            IsChoice(QuestionAt(i)) =>
                ResultAt(i).totalCorrect
                = SumStudentCount(CorrectRows(ResultAt(i).answersBreakdown))

\* One correct and one incorrect valid selection on a question with exactly
\* one option flagged correct.
C3_Witness ==
    /\ Served
    /\ IsChoice(QuestionAt(1))
    /\ Len(CorrectRows(ResultAt(1).answersBreakdown)) = 1
    /\ SumStudentCount(ResultAt(1).answersBreakdown) = 2
    /\ ResultAt(1).totalCorrect = 1

\* The answerText of the breakdown row of a clicked mesh.
RowTextOf(meshId) ==
    IF InCatalog(meshId)
    THEN (CHOOSE item \in meshCatalog : item._id = meshId).displayName
    ELSE "Unknown Mesh (" \o SubSeq(meshId, 1, 6) \o "...)"

RowsOf(i, meshId) ==
    SelectSeq(ResultAt(i).answersBreakdown,
              LAMBDA row : row.answerText = RowTextOf(meshId))

IsGroupQuestion(question) ==
    question.type = "select-organ" /\ question.targetType = "group"

IsMeshQuestion(question) ==
    question.type = "select-organ" /\ question.targetType = "mesh"

\* C4: for a group-target question an answer adds to totalCorrect exactly
\* when the target group is in the clicked mesh's organGroupIds in the
\* catalog, and the row of the mesh is flagged correct exactly then.
C4_GroupTransitivity ==
    Served =>
        \A i \in Positions :
            IsGroupQuestion(QuestionAt(i)) =>
                LET counted == CountedAnswers(QuestionAt(i)._id)
                    target == QuestionAt(i).target_id
                IN  /\ ResultAt(i).totalCorrect
                       = Cardinality({ k \in 1..Len(counted) :
                            /\ Clicked(counted[k])
                            /\ InGroup(counted[k].responseText_ClickedMesh_id,
                                       target) })
                    /\ \A k \in 1..Len(counted) :
                          Clicked(counted[k]) =>
                            LET rows == RowsOf(i,
                                  counted[k].responseText_ClickedMesh_id)
                            IN  /\ Len(rows) = 1
                                /\ rows[1].isCorrectOption
                                   <=> InGroup(
                                     counted[k].responseText_ClickedMesh_id,
                                     target)

\* A click on a mesh of several groups next to a click on a mesh of no group.
C4_Witness ==
    /\ Served
    /\ \E i \in Positions :
        /\ IsGroupQuestion(QuestionAt(i))
        /\ LET counted == CountedAnswers(QuestionAt(i)._id)
           IN  /\ Len(counted) = 2
               /\ Clicked(counted[1]) /\ Clicked(counted[2])
               /\ counted[1].responseText_ClickedMesh_id = MeshRadius
               /\ counted[2].responseText_ClickedMesh_id = MeshLung
               /\ ResultAt(i).totalCorrect = 1

\* A submission reduced to its first entry for every question id.
FirstEntriesOnly(subs) ==
    [ k \in 1..Len(subs) |->
        [subs[k] EXCEPT !.answers =
            LET RECURSIVE Keep(_)
                Keep(n) ==
                    IF n > Len(subs[k].answers) THEN <<>>
                    ELSE (IF \E m \in 1..(n - 1) :
                                subs[k].answers[m].question_id
                                = subs[k].answers[n].question_id
                          THEN <<>> ELSE <<subs[k].answers[n]>>)
                         \o Keep(n + 1)
            IN  Keep(1)] ]

HasDuplicateEntries(sub) ==
    \E m, n \in 1..Len(sub.answers) :
        /\ m < n
        /\ sub.answers[m].question_id = sub.answers[n].question_id
        /\ sub.answers[m] /= sub.answers[n]

\* The number of entries for a question over all submissions of the quiz.
EntryCount(questionId) ==
    LET RECURSIVE Count(_)
        Count(k) == IF k > Len(ServedSubs) THEN 0
                    ELSE Cardinality(EntriesFor(ServedSubs[k], questionId))
                         + Count(k + 1)
    IN  Count(1)

\* C5 as stated: every entry of a submission is counted, so the total of a
\* question is the number of entries carrying its id.
C5_EveryEntryCounted ==
    Served =>
        \A i \in Positions :
            ResultAt(i).totalSubmissionsForQuestion
            = EntryCount(QuestionAt(i)._id)

\* C5 as amended: a submission adds at most one answer to a question, its
\* first entry for the question id; the results are those of the log in
\* which every later entry with the same question id is removed.
C5_FirstEntryCounted ==
    Served =>
        /\ \A i \in Positions :
              ResultAt(i).totalSubmissionsForQuestion <= Len(ServedSubs)
        /\ response.body
           = questionResults(ServedQuiz.questions,
                             FirstEntriesOnly(ServedSubs),
                             meshCatalogMap(ServedQuiz,
                                            FirstEntriesOnly(ServedSubs)),
                             organGroupMap(ServedQuiz))

C5_Witness ==
    /\ Served
    /\ Len(ServedSubs) = 1
    /\ HasDuplicateEntries(ServedSubs[1])
    /\ ResultAt(1).totalSubmissionsForQuestion = 1

\* C6: totalSubmissionsForQuestion is the number of submissions of the quiz
\* with at least one entry for the question, valid or not; it is at least the
\* sum of the breakdown, which is at least totalCorrect; a choice answer with
\* a missing or out-of-range index is in the total and in no tally.
C6_TotalCountsEveryAnswer ==
    Served =>
        \A i \in Positions :
            LET counted == CountedAnswers(QuestionAt(i)._id)
                tallied == SumStudentCount(ResultAt(i).answersBreakdown)
            IN  /\ ResultAt(i).totalSubmissionsForQuestion
                   = Cardinality({ k \in 1..Len(ServedSubs) :
                        EntriesFor(ServedSubs[k], QuestionAt(i)._id) /= {} })
                /\ ResultAt(i).totalSubmissionsForQuestion >= tallied
                /\ tallied >= ResultAt(i).totalCorrect
                /\ ( /\ IsChoice(QuestionAt(i))
                     /\ \E k \in 1..Len(counted) :
                            ~HasValidIndex(QuestionAt(i), counted[k]) )
                   => ResultAt(i).totalSubmissionsForQuestion > tallied

\* Two answers to a choice question, one without index and one out of range.
C6_Witness ==
    /\ Served
    /\ IsChoice(QuestionAt(1))
    /\ LET counted == CountedAnswers(QuestionAt(1)._id)
       IN  /\ Len(counted) = 2
           /\ \E k \in 1..2 : "selectedAnswerId_Index" \notin DOMAIN counted[k]
           /\ \E k \in 1..2 :
                 /\ "selectedAnswerId_Index" \in DOMAIN counted[k]
                 /\ counted[k].selectedAnswerId_Index
                    >= Len(QuestionAt(1).answers)
    /\ ResultAt(1).totalSubmissionsForQuestion = 2
    /\ ResultAt(1).totalCorrect = 0

\* C7: the breakdown of a multiple-choice or true-false question has one
\* entry per option in the options' order, carrying the option's text, its
\* tally and its isCorrect flag; an option nobody chose has studentCount 0.
C7_OneRowPerOption ==
    Served =>
        \A i \in Positions :
            IsChoice(QuestionAt(i)) =>
                LET counted == CountedAnswers(QuestionAt(i)._id)
                    options == QuestionAt(i).answers
                    rows == ResultAt(i).answersBreakdown
                IN  /\ Len(rows) = Len(options)
                    /\ \A k \in 1..Len(options) :
                        /\ rows[k].answerText = options[k].text
                        /\ rows[k].isCorrectOption = options[k].isCorrect
                        /\ rows[k].studentCount
                           = Cardinality({ n \in 1..Len(counted) :
                               /\ "selectedAnswerId_Index" \in DOMAIN counted[n]
                               /\ counted[n].selectedAnswerId_Index = k - 1 })

\* Three options, the first chosen twice, the others never.
C7_Witness ==
    /\ Served
    /\ IsChoice(QuestionAt(1))
    /\ Len(QuestionAt(1).answers) = 3
    /\ ResultAt(1).answersBreakdown[1].studentCount = 2
    /\ ResultAt(1).answersBreakdown[2].studentCount = 0
    /\ ResultAt(1).answersBreakdown[3].studentCount = 0

\* The counted answers that click the given mesh.
ClicksOn(counted, meshId) ==
    { k \in 1..Len(counted) :
        Clicked(counted[k])
        /\ counted[k].responseText_ClickedMesh_id = meshId }

\* C8: the breakdown of a mesh-target question has exactly one row for the
\* target mesh, flagged correct, with the number of clicks on the target
\* (0 when nobody clicked it), whether or not the target is in the catalog;
\* no other row is flagged correct.
C8_TargetRowAlwaysListed ==
    Served =>
        \A i \in Positions :
            ( IsMeshQuestion(QuestionAt(i))
              /\ "target_id" \in DOMAIN QuestionAt(i) ) =>
                LET target == QuestionAt(i).target_id
                    rows == ResultAt(i).answersBreakdown
                    counted == CountedAnswers(QuestionAt(i)._id)
                IN  /\ Len(RowsOf(i, target)) = 1
                    /\ RowsOf(i, target)[1].isCorrectOption
                    /\ RowsOf(i, target)[1].studentCount
                       = Cardinality(ClicksOn(counted, target))
                    /\ \A k \in 1..Len(rows) :
                          rows[k].answerText /= RowTextOf(target)
                              => ~rows[k].isCorrectOption

\* The target is in no catalog and nobody clicked it; another mesh and no
\* mesh were clicked.
C8_Witness ==
    /\ Served
    /\ IsMeshQuestion(QuestionAt(1))
    /\ ~InCatalog(QuestionAt(1).target_id)
    /\ ClicksOn(CountedAnswers(QuestionAt(1)._id), QuestionAt(1).target_id)
       = {}
    /\ ClicksOn(CountedAnswers(QuestionAt(1)._id), MeshHeart) /= {}
    /\ Len(ResultAt(1).answersBreakdown) = 3

\* C9: a short-answer question has totalCorrect 0, an empty breakdown and
\* one submittedTextAnswers entry per answering submission, in submission
\* order: the submitted text, or "No Answer" when it is absent or empty.
C9_ShortAnswerExclusion ==
    Served =>
        \A i \in Positions :
            QuestionAt(i).type = "short-answer" =>
                LET counted == CountedAnswers(QuestionAt(i)._id)
                IN  /\ ResultAt(i).totalCorrect = 0
                    /\ ResultAt(i).answersBreakdown = <<>>
                    /\ "submittedTextAnswers" \in DOMAIN ResultAt(i)
                    /\ ResultAt(i).submittedTextAnswers
                       = [ k \in 1..Len(counted) |->
                            IF "responseText_ShortAnswer" \in DOMAIN counted[k]
                               /\ counted[k].responseText_ShortAnswer /= ""
                            THEN counted[k].responseText_ShortAnswer
                            ELSE "No Answer" ]

C9_Witness ==
    /\ Served
    /\ \E i \in Positions :
        /\ QuestionAt(i).type = "short-answer"
        /\ Len(CountedAnswers(QuestionAt(i)._id)) = 2
        /\ ResultAt(i).submittedTextAnswers = <<"No Answer", "Breathing">>
        /\ "responseText_ShortAnswer"
              \in DOMAIN CountedAnswers(QuestionAt(i)._id)[1]

\* C10: an answer to a select-organ question that clicks a mesh id absent
\* from the catalog is in totalSubmissionsForQuestion, and the breakdown has
\* a row "Unknown Mesh (<first 6 characters of the id>...)" whose
\* studentCount is the number of answers that click the id.
C10_DanglingMeshRow ==
    Served =>
        \A i \in Positions :
            QuestionAt(i).type = "select-organ" =>
                LET counted == CountedAnswers(QuestionAt(i)._id)
                    rows == ResultAt(i).answersBreakdown
                IN  /\ ResultAt(i).totalSubmissionsForQuestion = Len(counted)
                    /\ \A k \in 1..Len(counted) :
                        ( Clicked(counted[k])
                          /\ ~InCatalog(counted[k].responseText_ClickedMesh_id)
                        ) =>
                          LET meshId ==
                                counted[k].responseText_ClickedMesh_id
                          IN  \E n \in 1..Len(rows) :
                                /\ rows[n].answerText
                                   = "Unknown Mesh ("
                                     \o SubSeq(meshId, 1, 6) \o "...)"
                                /\ rows[n].studentCount
                                   = Cardinality(ClicksOn(counted, meshId))

\* A group-target question on which the same absent mesh was clicked twice.
C10_Witness ==
    /\ Served
    /\ \E i \in Positions :
        /\ IsGroupQuestion(QuestionAt(i))
        /\ Cardinality(ClicksOn(CountedAnswers(QuestionAt(i)._id), MeshGone))
           = 2
        /\ ~InCatalog(MeshGone)
        /\ ResultAt(i).answersBreakdown
           = <<[answerText |-> "Unknown Mesh (6a7b3c...)", studentCount |-> 2,
                isCorrectOption |-> FALSE]>>

(***************************************************************************)
(* Outcome of a results request                                            *)
(***************************************************************************)
\* The stored quizzes the id of the results request names.
RequestedQuizzes == { quiz \in quizzes : IdText(quiz._id) = response.id }

ResultFields ==
    {"questionId", "questionText", "questionType",
     "totalSubmissionsForQuestion", "totalCorrect", "answersBreakdown"}

GroupInCatalog(groupId) == \E group \in organGroups : group._id = groupId

\* C11: a results request for a stored quiz, with no storage operation
\* failing, answers 200 with one complete entry per question, whichever of
\* the referenced mesh and group ids the catalogs lack and whichever
\* questions a submission leaves unanswered; an unresolved target is named
\* by a placeholder.
C11_GapsNeverFail ==
    (response.op = "GET results" /\ RequestedQuizzes /= {}) =>
        /\ response.status = 200
        /\ Len(response.body) = Len(ServedQuiz.questions)
        /\ \A i \in Positions :
              /\ ResultFields \subseteq DOMAIN ResultAt(i)
              /\ ResultAt(i).questionId = QuestionAt(i)._id
              /\ ResultAt(i).totalSubmissionsForQuestion
                 = Len(CountedAnswers(QuestionAt(i)._id))
              /\ ( IsMeshQuestion(QuestionAt(i))
                   /\ ~InCatalog(QuestionAt(i).target_id) )
                 => ResultAt(i).correctTargetDisplayName
                    = "Unknown Target Mesh"
              /\ ( IsGroupQuestion(QuestionAt(i))
                   /\ ~GroupInCatalog(QuestionAt(i).target_id) )
                 => ResultAt(i).correctTargetDisplayName
                    = "Unknown Target Group"

\* The target group and a clicked mesh are in no catalog, the first question
\* is answered by nobody, and the click recorded after the unresolved one is
\* still scored.
C11_Witness ==
    /\ response.op = "GET results" /\ response.status = 200
    /\ RequestedQuizzes /= {}
    /\ Len(ServedQuiz.questions) = 2
    /\ CountedAnswers(QuestionAt(1)._id) = <<>>
    /\ IsGroupQuestion(QuestionAt(2))
    /\ ~GroupInCatalog(QuestionAt(2).target_id)
    /\ LET counted == CountedAnswers(QuestionAt(2)._id)
       IN  /\ Len(counted) = 2
           /\ Clicked(counted[1]) /\ Clicked(counted[2])
           /\ ~InCatalog(counted[1].responseText_ClickedMesh_id)
           /\ counted[2].responseText_ClickedMesh_id = MeshRadius
    /\ ResultAt(2).totalCorrect = 1

\* C13 as stated: with no submission of the quiz, every question has an
\* entry with total 0, totalCorrect 0 and an empty breakdown.
C13_EmptyBreakdown ==
    (Served /\ ServedSubs = <<>>) =>
        /\ Len(response.body) = Len(ServedQuiz.questions)
        /\ \A i \in Positions :
              /\ ResultAt(i).totalSubmissionsForQuestion = 0
              /\ ResultAt(i).totalCorrect = 0
              /\ ResultAt(i).answersBreakdown = <<>>

\* C13 as amended: with no submission of the quiz, every question has an
\* entry with total 0 and totalCorrect 0, and its breakdown holds no counted
\* answer: one row of studentCount 0 per option for a choice question, the
\* single row of the target with studentCount 0 for a mesh target, and no
\* row for a group target or a short-answer question (whose
\* submittedTextAnswers is empty).
C13_ZeroCounts ==
    (Served /\ ServedSubs = <<>>) =>
        /\ Len(response.body) = Len(ServedQuiz.questions)
        /\ \A i \in Positions :
              LET rows == ResultAt(i).answersBreakdown
              IN  /\ ResultAt(i).questionId = QuestionAt(i)._id
                  /\ ResultAt(i).totalSubmissionsForQuestion = 0
                  /\ ResultAt(i).totalCorrect = 0
                  /\ \A k \in 1..Len(rows) : rows[k].studentCount = 0
                  /\ Len(rows) =
                       IF IsChoice(QuestionAt(i))
                       THEN Len(QuestionAt(i).answers)
                       ELSE IF IsMeshQuestion(QuestionAt(i)) THEN 1 ELSE 0
                  /\ QuestionAt(i).type = "short-answer"
                       => ResultAt(i).submittedTextAnswers = <<>>

\* The log holds a submission of another quiz only; the served quiz has a
\* choice question.
C13_Witness ==
    /\ Served
    /\ ServedSubs = <<>>
    /\ submissions /= <<>>
    /\ IsChoice(QuestionAt(1))
    /\ Len(ResultAt(1).answersBreakdown) = 2

(***************************************************************************)
(* Error statuses and frame of a results request                           *)
(***************************************************************************)
HexChars ==
    {"0", "1", "2", "3", "4", "5", "6", "7", "8", "9", "a", "b", "c", "d",
     "e", "f", "A", "B", "C", "D", "E", "F"}

WellFormedId(id) ==
    Len(id) = 24 /\ \A n \in 1..24 : SubSeq(id, n, n) \in HexChars

\* Some stored quiz has the requested id (hexadecimal digits of either case).
QuizStored(id) == \E quiz \in quizzes : UpperHex(quiz._id) = UpperHex(id)

QueriesAfterLookup ==
    {"Submission.find", "MeshCatalogItem.find", "OrganGroup.find"}

C15_ResultsWriteNothing ==
    [][ response'.op = "GET results" =>
          /\ quizzes' = quizzes
          /\ submissions' = submissions
          /\ meshCatalog' = meshCatalog
          /\ organGroups' = organGroups ]_vars

\* A results request that failed at the catalog read, after a submission
\* with an unresolved click was stored.
C15_Witness ==
    /\ response.op = "GET results"
    /\ response.status = 500
    /\ response.details = "MeshCatalogItem.find"
    /\ submissions /= <<>>
    /\ quizzes /= {}

(***************************************************************************)
(* Repeated results requests                                               *)
(***************************************************************************)
\* The observed results request was for the quiz now served and read the
\* quiz, the submissions of the quiz and the catalogs as they are now.
SameInputsAsEarlier ==
    /\ Served
    /\ earlier.id = response.id
    /\ earlier.later >= 1
    /\ earlier.quiz = {ServedQuiz}
    /\ earlier.subs = ServedSubs
    /\ earlier.meshCatalog = meshCatalog
    /\ earlier.organGroups = organGroups

C16_AppendOnly ==
    [][ /\ Len(submissions') >= Len(submissions)
        /\ SubSeq(submissions', 1, Len(submissions)) = submissions
        /\ submissions' /= submissions =>
              /\ response'.op = "POST submissions"
              /\ response'.status = 201
              /\ Len(submissions') = Len(submissions) + 1 ]_vars

\* A quiz was deleted and a submission for it is still in the log.
C16_Witness ==
    /\ response.op = "DELETE quiz"
    /\ response.status = 200
    /\ \E n \in 1..Len(submissions) : ~QuizStored(submissions[n].quiz_id)

ShapeFields ==
    {"selectedAnswerId_Index", "responseText_ClickedMesh_id",
     "responseText_ShortAnswer"}

\* The number of answer shapes an answer carries.
ShapeCount(ans) == Cardinality({ f \in ShapeFields : HasField(ans, f) })

\* The request body has one of the defects that are answered with 400.
Malformed(body) ==
    \/ ~HasField(body, "quiz_id") \/ ~WellFormedId(body.quiz_id)
    \/ ~HasField(body, "studyYearAtSubmission")
    \/ ~HasField(body.studyYearAtSubmission, "number")
    \/ ~HasField(body, "submittedAt") \/ body.submittedAt = ""
    \/ ~HasField(body, "answers") \/ body.answers = <<>>
    \/ \E n \in 1..Len(body.answers) :
          LET ans == body.answers[n]
          IN  \/ ~HasField(ans, "question_id")
              \/ ~WellFormedId(ans.question_id)
              \/ ShapeCount(ans) = 0
              \/ /\ HasField(ans, "responseText_ClickedMesh_id")
                 /\ ans.responseText_ClickedMesh_id /= ""
                 /\ ~WellFormedId(ans.responseText_ClickedMesh_id)

\* C17: a submission POST appends to the log only when it answers 201.  A
\* malformed request is answered with 400 before the quiz is looked up,
\* whether or not its quiz exists; a well-formed request for a quiz that is
\* not stored is answered with 404; both leave the log as it was.
C17_AppendsOnlyOn201 ==
    [][ response'.op = "POST submissions" =>
          /\ response'.status \in {201, 400, 404}
          /\ response'.status \in {400, 404} => submissions' = submissions
          /\ response'.status = 201 =>
                Len(submissions') = Len(submissions) + 1
          /\ Malformed(request'.body) =>
                response'.status = 400 /\ storageCalls' = <<>>
          /\ ~Malformed(request'.body) /\ ~QuizStored(request'.body.quiz_id)
                => response'.status = 404 ]_vars

\* A malformed request for a well-formed id of no stored quiz got its 400
\* without a lookup of the quiz, and the log holds an earlier submission.
C17_Witness ==
    /\ response.op = "POST submissions"
    /\ response.status = 400
    /\ storageCalls = <<>>
    /\ HasField(request.body, "quiz_id")
    /\ WellFormedId(request.body.quiz_id)
    /\ ~QuizStored(request.body.quiz_id)
    /\ submissions /= <<>>

LacksTypeFields(q) ==
    /\ HasField(q, "type")
    /\ \/ /\ q.type = "select-organ"
          /\ \/ ~HasField(q, "targetType")
             \/ q.targetType \notin {"mesh", "group"}
             \/ ~HasField(q, "target_id")
             \/ ~WellFormedId(q.target_id)
       \/ /\ q.type \in {"multiple-choice", "true-false"}
          /\ ~HasField(q, "answers") \/ q.answers = <<>>

\* C19: the creation of a quiz and the update of a stored quiz are answered
\* with 400, and leave the stored quizzes as they were, when a question of
\* the request lacks a field of its type: the targetType (mesh or group) or
\* the well-formed target_id of a select-organ question, the non-empty
\* answer list of a multiple-choice or true-false question.
C19_TypeFieldsRequired ==
    [][ /\ response'.op \in {"POST quizzes", "PUT quiz"}
        /\ response'.op = "PUT quiz" => QuizStored(request'.id)
        /\ HasField(request'.body, "questions")
        /\ \E q \in Range(request'.body.questions) : LacksTypeFields(q)
        => response'.status = 400 /\ quizzes' = quizzes ]_vars

\* C20: every stored quiz has at least one question, and no two questions
\* of a quiz share an id.
C20_QuestionsNonEmptyUnique ==
    \A quiz \in quizzes :
        /\ quiz.questions /= <<>>
        /\ \A i, j \in 1..Len(quiz.questions) :
              i /= j => quiz.questions[i]._id /= quiz.questions[j]._id

(***************************************************************************)
(* Select-organ questions                                                  *)
(***************************************************************************)
\* C21: for a mesh-target question totalCorrect is the number of counted
\* answers whose clicked mesh id is the question's target_id, whether or not
\* the clicked mesh or the target is in the catalog and whatever groups the
\* meshes belong to.
C21_MeshTargetEquality ==
    Served =>
        \A i \in Positions :
            ( IsMeshQuestion(QuestionAt(i))
              /\ "target_id" \in DOMAIN QuestionAt(i) ) =>
                ResultAt(i).totalCorrect
                = Cardinality(ClicksOn(CountedAnswers(QuestionAt(i)._id),
                                       QuestionAt(i).target_id))

\* The target is in no catalog; one answer clicks it and another clicks a
\* catalog mesh that belongs to a group.
C21_Witness ==
    /\ Served
    /\ IsMeshQuestion(QuestionAt(1))
    /\ ~InCatalog(QuestionAt(1).target_id)
    /\ Len(CountedAnswers(QuestionAt(1)._id)) = 2
    /\ ClicksOn(CountedAnswers(QuestionAt(1)._id), QuestionAt(1).target_id)
       /= {}
    /\ ClicksOn(CountedAnswers(QuestionAt(1)._id), MeshHeart) /= {}
    /\ InGroup(MeshHeart, GroupUpper)
    /\ ResultAt(1).totalCorrect = 1

\* The name a select-organ question's result reports for its target.
TargetNameOf(question) ==
    IF question.targetType = "mesh"
    THEN IF InCatalog(question.target_id)
         THEN (CHOOSE item \in meshCatalog :
                 item._id = question.target_id).displayName
         ELSE "Unknown Target Mesh"
    ELSE IF GroupInCatalog(question.target_id)
         THEN (CHOOSE group \in organGroups :
                 group._id = question.target_id).groupName
         ELSE "Unknown Target Group"

\* C22: the result of a select-organ question carries as
\* correctTargetDisplayName the displayName of the target mesh in the mesh
\* catalog (mesh target) or the groupName of the target group in the
\* organ-group catalog (group target), and "Unknown Target Mesh" or
\* "Unknown Target Group" when the catalog of its kind lacks the target; the
\* result of a question of another type has no correctTargetDisplayName.
C22_TargetDisplayName ==
    Served =>
        \A i \in Positions :
            IF IsMeshQuestion(QuestionAt(i)) \/ IsGroupQuestion(QuestionAt(i))
            THEN /\ "correctTargetDisplayName" \in DOMAIN ResultAt(i)
                 /\ ResultAt(i).correctTargetDisplayName
                    = TargetNameOf(QuestionAt(i))
            ELSE "correctTargetDisplayName" \notin DOMAIN ResultAt(i)

\* A group target found in the organ-group catalog and in no mesh of the
\* mesh catalog's ids, reported under its groupName.
C22_Witness ==
    /\ Served
    /\ IsGroupQuestion(QuestionAt(1))
    /\ GroupInCatalog(QuestionAt(1).target_id)
    /\ ~InCatalog(QuestionAt(1).target_id)
    /\ ResultAt(1).correctTargetDisplayName = "Upper Limb"
    /\ CountedAnswers(QuestionAt(1)._id) /= <<>>

\* The counted answers that carry no clicked mesh id.
Unanswered(counted) == { k \in 1..Len(counted) : ~Clicked(counted[k]) }

NoAnswerRows(rows) ==
    { n \in 1..Len(rows) : rows[n].answerText = "No Answer" }

ClickedIds(counted) ==
    { counted[k].responseText_ClickedMesh_id :
        k \in { n \in 1..Len(counted) : Clicked(counted[n]) } }

\* C24: the breakdown of a group-target question has, beside the row
\* "No Answer", exactly one row per distinct mesh id clicked by the counted
\* answers, with the number of clicks on it; the target group and meshes
\* nobody clicked have no row, so without a click there is no mesh row.
C24_GroupRowsAreClicks ==
    Served =>
        \A i \in Positions :
            IsGroupQuestion(QuestionAt(i)) =>
                LET counted == CountedAnswers(QuestionAt(i)._id)
                    rows == ResultAt(i).answersBreakdown
                IN  /\ Len(rows) - Cardinality(NoAnswerRows(rows))
                       = Cardinality(ClickedIds(counted))
                    /\ \A meshId \in ClickedIds(counted) :
                          /\ Len(RowsOf(i, meshId)) = 1
                          /\ RowsOf(i, meshId)[1].studentCount
                             = Cardinality(ClicksOn(counted, meshId))
                    /\ \A n \in 1..Len(rows) : rows[n].studentCount > 0

\* Two answers to a group-target question, neither with a click: the
\* breakdown holds the row "No Answer" and no mesh row.
C24_Witness ==
    /\ Served
    /\ IsGroupQuestion(QuestionAt(1))
    /\ Len(CountedAnswers(QuestionAt(1)._id)) = 2
    /\ ClickedIds(CountedAnswers(QuestionAt(1)._id)) = {}
    /\ Len(ResultAt(1).answersBreakdown) = 1
    /\ ResultAt(1).answersBreakdown[1].answerText = "No Answer"

(***************************************************************************)
(* The catalog queries of a results request                                *)
(***************************************************************************)
\* How often the request issued the storage operation.
CallCount(op) ==
    Cardinality({ n \in 1..Len(storageCalls) : storageCalls[n] = op })

CallAt(op) == CHOOSE n \in 1..Len(storageCalls) : storageCalls[n] = op

\* The mesh ids the served quiz and its submissions refer to: the targets of
\* its mesh-target questions and the clicked ids of all answer entries.
ReferencedMeshIds ==
    { QuestionAt(i).target_id :
        i \in { n \in Positions : IsMeshQuestion(QuestionAt(n)) } }
    \cup UNION { ClickedIds(ServedSubs[k].answers) :
                   k \in 1..Len(ServedSubs) }

ReferencedGroupIds ==
    { QuestionAt(i).target_id :
        i \in { n \in Positions : IsGroupQuestion(QuestionAt(n)) } }

\* C25: a results request answered with 200 has issued one mesh-catalog
\* query and one organ-group query, both after the query for the quiz and
\* the query for its submissions, however many questions and submissions
\* there are; the ids the two queries ask for are the mesh-target ids and
\* clicked mesh ids, respectively the group-target ids, that the quiz and
\* its submissions refer to, each once.
C25_OneBatchPerCatalog ==
    (Served /\ request.op = "GET results") =>
        /\ CallCount("MeshCatalogItem.find") = 1
        /\ CallCount("OrganGroup.find") = 1
        /\ CallCount("Quiz.findById") = 1
        /\ CallCount("Submission.find") = 1
        /\ Len(storageCalls) = 4
        /\ \A catalog \in {"MeshCatalogItem.find", "OrganGroup.find"} :
              /\ CallAt("Quiz.findById") < CallAt(catalog)
              /\ CallAt("Submission.find") < CallAt(catalog)
        /\ request.meshIds = ReferencedMeshIds
        /\ request.groupIds = ReferencedGroupIds

\* Three questions and two submissions that click the target mesh of the
\* first question: one id asked for in the mesh catalog, two group ids.
C25_Witness ==
    /\ Served
    /\ request.op = "GET results"
    /\ Len(ServedQuiz.questions) = 3
    /\ Len(ServedSubs) = 2
    /\ \A k \in 1..2 : ClickedIds(ServedSubs[k].answers) = {MeshHeart}
    /\ request.meshIds = {MeshHeart}
    /\ request.groupIds = {GroupUpper, GroupLost}
    /\ Len(storageCalls) = 4

(***************************************************************************)
(* Sums over the breakdown of a select-organ question                      *)
(***************************************************************************)
\* C26: for a select-organ question the studentCount values of all rows of
\* the breakdown, the row "No Answer" included, add up to
\* totalSubmissionsForQuestion, the number of counted answers.
C26_RowsCoverAnswers ==
    Served =>
        \A i \in Positions :
            QuestionAt(i).type = "select-organ" =>
                /\ SumStudentCount(ResultAt(i).answersBreakdown)
                   = ResultAt(i).totalSubmissionsForQuestion
                /\ ResultAt(i).totalSubmissionsForQuestion
                   = Len(CountedAnswers(QuestionAt(i)._id))

\* Two clicks on one mesh that is not the target: its row counts 2 and the
\* row of the target counts 0.
C26_Witness ==
    /\ Served
    /\ IsMeshQuestion(QuestionAt(1))
    /\ ResultAt(1).totalSubmissionsForQuestion = 2
    /\ Len(ResultAt(1).answersBreakdown) = 2
    /\ ResultAt(1).answersBreakdown[1].studentCount = 2
    /\ ResultAt(1).answersBreakdown[2].studentCount = 0

\* C27: for a select-organ question totalCorrect is the sum of studentCount
\* over the rows of the breakdown flagged isCorrectOption, also when the
\* clicked meshes or the target are missing from the catalog.
C27_CorrectRowsSumToTotalCorrect ==
    Served =>
        \A i \in Positions :
            QuestionAt(i).type = "select-organ" =>
                ResultAt(i).totalCorrect
                = SumStudentCount(CorrectRows(ResultAt(i).answersBreakdown))

\* A target missing from the catalog that was clicked once, next to a click
\* on another mesh.
C27_Witness ==
    /\ Served
    /\ IsMeshQuestion(QuestionAt(1))
    /\ ~InCatalog(QuestionAt(1).target_id)
    /\ ResultAt(1).totalCorrect = 1
    /\ ResultAt(1).totalSubmissionsForQuestion = 2
    /\ Len(CorrectRows(ResultAt(1).answersBreakdown)) = 1
    /\ Len(ResultAt(1).answersBreakdown) = 2

(***************************************************************************)
(* Results before and after further submissions                            *)
(***************************************************************************)
\* An earlier results response is at hand, and the catalogs are as they were
\* when it was computed.
Compared ==
    /\ Served
    /\ earlier.id /= ""
    /\ earlier.meshCatalog = meshCatalog
    /\ earlier.organGroups = organGroups

EarlierQuiz == CHOOSE quiz \in earlier.quiz : TRUE

\* The earlier response was for the served quiz, which is as it was.
SameQuizCompared ==
    /\ Compared
    /\ earlier.id = response.id
    /\ earlier.quiz = {ServedQuiz}

\* The submissions for the served quiz stored since the earlier response.
Appended ==
    SubSeq(ServedSubs, Len(earlier.subs) + 1, Len(ServedSubs))

\* The rows of the earlier breakdown are still there, under their text.
RowsNotBelow(before, now) ==
    \A n \in 1..Len(before) :
        \E m \in 1..Len(now) :
            /\ now[m].answerText = before[n].answerText
            /\ now[m].studentCount >= before[n].studentCount

\* C28: with the quiz and the catalogs unchanged, the results after further
\* accepted submissions for the quiz differ from the earlier results in
\* this way: totalSubmissionsForQuestion of a question has risen by the
\* number of new submissions with an answer entry for it, one per such
\* submission and none for the others, and no totalCorrect and no
\* studentCount of a row is lower than it was.
C28_AppendsOnlyAdd ==
    SameQuizCompared =>
        /\ SubSeq(ServedSubs, 1, Len(earlier.subs)) = earlier.subs
        /\ \A i \in Positions :
              /\ ResultAt(i).totalSubmissionsForQuestion
                 = earlier.body[i].totalSubmissionsForQuestion
                   + Cardinality({ k \in 1..Len(Appended) :
                        EntriesFor(Appended[k], QuestionAt(i)._id) /= {} })
              /\ ResultAt(i).totalCorrect >= earlier.body[i].totalCorrect
              /\ RowsNotBelow(earlier.body[i].answersBreakdown,
                              ResultAt(i).answersBreakdown)

\* One submission stored since the earlier response, with an entry for the
\* second question and none for the first: the first total is as it was and
\* the second has risen from 1 to 2.
C28_Witness ==
    /\ SameQuizCompared
    /\ Len(ServedQuiz.questions) = 2
    /\ Len(earlier.subs) = 1
    /\ Len(Appended) = 1
    /\ EntriesFor(Appended[1], QuestionAt(1)._id) = {}
    /\ EntriesFor(Appended[1], QuestionAt(2)._id) /= {}
    /\ earlier.body[2].totalSubmissionsForQuestion = 1
    /\ ResultAt(2).totalSubmissionsForQuestion = 2
    /\ ResultAt(1).totalSubmissionsForQuestion
       = earlier.body[1].totalSubmissionsForQuestion

\* The answer entries for a question, submission by submission, of the
\* submissions that have any.
RECURSIVE OwnEntries(_, _)
OwnEntries(subs, questionId) ==
    IF subs = <<>> THEN <<>>
    ELSE (IF EntriesFor(Head(subs), questionId) /= {}
          THEN <<SelectSeq(Head(subs).answers,
                           LAMBDA ans : ans.question_id = questionId)>>
          ELSE <<>>)
         \o OwnEntries(Tail(subs), questionId)

\* The entries of the submissions that carry the id of no question.
ForeignEntries(subs, quiz) ==
    { <<k, n>> \in (1..Len(subs)) \X (1..MaxTotalAnswers) :
        /\ n <= Len(subs[k].answers)
        /\ \A i \in 1..Len(quiz.questions) :
              subs[k].answers[n].question_id /= quiz.questions[i]._id }

\* C29: the result of a question is determined by the question, the answer
\* entries that carry its id and the catalogs: two results requests whose
\* quizzes hold the same question and whose submissions agree on the
\* entries for it return the same result for it, whatever entries for other
\* ids the submissions hold, those for ids of no question of the quiz
\* included; the results count, question by question, only submissions with
\* an entry for the question's id.
C29_OwnEntriesOnly ==
    Compared =>
        /\ \A i \in Positions :
              \A j \in 1..Len(EarlierQuiz.questions) :
                 ( /\ QuestionAt(i) = EarlierQuiz.questions[j]
                   /\ OwnEntries(ServedSubs, QuestionAt(i)._id)
                      = OwnEntries(earlier.subs, QuestionAt(i)._id) )
                 => ResultAt(i) = earlier.body[j]
        /\ Len(response.body) = Len(ServedQuiz.questions)
        /\ \A i \in Positions :
              /\ ResultAt(i).questionId = QuestionAt(i)._id
              /\ ResultAt(i).totalSubmissionsForQuestion
                 = Len(OwnEntries(ServedSubs, QuestionAt(i)._id))

\* Since the earlier response a submission was stored whose only entry
\* carries the id of no question of the quiz; the earlier submission
\* answers the question, and the result list is as it was.
C29_Witness ==
    /\ SameQuizCompared
    /\ Len(earlier.subs) = 1
    /\ Len(ServedSubs) = 2
    /\ ForeignEntries(earlier.subs, ServedQuiz) = {}
    /\ ForeignEntries(ServedSubs, ServedQuiz) = {<<2, 1>>}
    /\ Len(ServedSubs[2].answers) = 1
    /\ response.body = earlier.body
    /\ ResultAt(1).totalSubmissionsForQuestion = 1

(***************************************************************************)
(* Requests for a deleted quiz                                             *)
(***************************************************************************)
\* The request just served is a submission for the quiz of the given id.
SubmittedFor(quizId) ==
    /\ response'.op = "POST submissions"
    /\ HasField(request'.body, "quiz_id")
    /\ UpperHex(request'.body.quiz_id) = UpperHex(quizId)

\* The request just served asked for the results of the quiz.
ResultsAskedFor(quizId) ==
    /\ response'.op = "GET results"
    /\ UpperHex(response'.id) = UpperHex(quizId)

\* The request just served listed the submissions of the quiz, and the list
\* holds the stored submissions for it, all of them and in their order.
ListedFor(quizId) ==
    /\ response'.op = "GET submissions"
    /\ UpperHex(request'.quiz_id) = UpperHex(quizId)

StoredFor(quizId) ==
    SelectSeq(submissions, LAMBDA sub : sub.quiz_id = quizId)

ListHolds(data, stored) ==
    /\ Len(data) = Len(stored)
    /\ \A k \in 1..Len(stored) :
          /\ data[k].answers = stored[k].answers
          /\ data[k].submittedAt = stored[k].submittedAt
          /\ data[k].studyYearAtSubmission = stored[k].studyYearAtSubmission

\* C30 as stated: once a quiz is deleted, every request for its results and
\* every submission for its id is answered with 404; the submissions stored
\* for it stay in the log and are listed under its id.
C30_Always404 ==
    [][ \A quizId \in Deleted :
          /\ ResultsAskedFor(quizId) => response'.status = 404
          /\ SubmittedFor(quizId) => response'.status = 404
          /\ StoredFor(quizId)' = StoredFor(quizId)
          /\ ListedFor(quizId) =>
                ListHolds(response'.data, StoredFor(quizId)) ]_vars

\* C30: once a quiz is deleted, every request for its results is answered
\* with 404, and every submission for its id with 404 when the request is
\* well-formed and with 400 when it is malformed, none being stored; the
\* submissions stored for the quiz before stay in the log and are listed
\* under its id.
C30_DeletedQuizIsGone ==
    [][ \A quizId \in Deleted :
          /\ ResultsAskedFor(quizId) => response'.status = 404
          /\ SubmittedFor(quizId) =>
                response'.status
                = (IF Malformed(request'.body) THEN 400 ELSE 404)
          /\ StoredFor(quizId)' = StoredFor(quizId)
          /\ ListedFor(quizId) =>
                ListHolds(response'.data, StoredFor(quizId)) ]_vars

\* A well-formed submission for a deleted quiz got 404, and the log holds
\* the submission stored for the quiz before the deletion.
C30_Witness ==
    /\ response.op = "POST submissions"
    /\ response.status = 404
    /\ ~Malformed(request.body)
    /\ ObjectIdOf(request.body.quiz_id) \in Deleted
    /\ StoredFor(ObjectIdOf(request.body.quiz_id)) /= <<>>

====
